---- MODULE Spec2Model ----
(***************************************************************************)
(* A model of jete: the revision-tracked text buffer (src/src/text.rs),    *)
(* the edit session (src/src/state.rs), the typed publish/subscribe hub    *)
(* (src/src/pubsub.rs) and the frame scheduler (src/bouncer/src/lib.rs).   *)
(*                                                                         *)
(* Rust code that mutates `self` step by step is written as operators on   *)
(* a record W ("world") holding the State fields, the heap of Arc<String>  *)
(* allocations, the publishes made so far by the running handler (out),    *)
(* the handler's return value (action) and the panic it died of, if any.   *)
(* Line numbers and columns are 0-based as in the source; TLA+ sequences   *)
(* are 1-based, so line n of the source is lines[n + 1].                   *)
(***************************************************************************)
EXTENDS Integers, Sequences, FiniteSets, TLC

\* ------------------------------------------------------------------ bounds
\* Commands are dispatched while the buffer's revision is below this.
MaxRev == 3
\* The same, in the pipeline specification.
MaxPipeRev == 3
\* A command is dispatched while no live subscriber queue is longer than this.
MaxBacklog == 0
\* The command line is extended while it is shorter than this.
MaxCmdLen == 1
\* Receivers are handed out while the hub has made fewer channels than this.
MaxChans == 2
\* Values are published while fewer than this have been.
MaxPub == 2
\* Threads other than core call the hub while fewer than this calls were made.
MaxCalls == 1
\* The clock advances while fewer than this many half milliseconds have passed.
MaxTicks == 50
\* The highlighter's session edits while the Revision is below this.
MaxHlRev == 3
MaxRenderRev == 2
MaxScriptRev == 8
MaxStoreRev == 2
MaxEvents == 3
MaxSets == 3
MaxClones == 2
MaxTextRev == 4
MaxSubs == 4
MaxFrames == 4
MaxBusPub == 2
MaxBusRegs == 1
FrameHorizon == 3

\* ----------------------------------------------------------------- helpers
None == <<>>
Some(x) == <<x>>
is_some(o) == o # <<>>
unwrap(o) == o[1]

NL == "\n"
\* The characters a key event can carry in the model.
Chars == {"w", "q", NL}
\* The characters the session specification types into the buffer and into
\* the command line.
BufferChars == {"w", NL}
CommandChars == {"q", NL}

\* `c as u8` (state.rs:207)
as_u8(c) == CASE c = "w" -> 119 [] c = "q" -> 113
              [] c = "a" -> 97 [] c = "b" -> 98 [] c = "c" -> 99 [] OTHER -> 10

saturating_sub(a, b) == IF a > b THEN a - b ELSE 0
clamp(x, lo, hi) == IF x < lo THEN lo ELSE IF x > hi THEN hi ELSE x

\* Vec::insert(index, element)
vec_insert(s, index, e) == SubSeq(s, 1, index) \o <<e>> \o SubSeq(s, index + 1, Len(s))
\* Vec::remove(index)
vec_remove(s, index) == SubSeq(s, 1, index) \o SubSeq(s, index + 2, Len(s))

\* ------------------------------------------------------------------ topics
text_update_topic == <<"body-text", "TextView">>
state_update_topic == <<"state", "StateSnapshot">>

\* --------------------------------------------------------------- variables
VARIABLES
    text,          \* State.text: [rev, next_line_id, revs_before, lines]
    heap,          \* the Arc<String> allocations; an address is an index
    cursor_pos,    \* State.cursor_pos: [line_number, colmun]
    status_text,   \* State.status_text
    mode,          \* State.mode
    command_line,  \* State.command_line
    file,          \* State.file: None or Some(bytes of the backing store)
    running,       \* the core thread is in its loop (editor.rs:56)
    panicked,      \* the panic that ended the core thread, "" if none
    topics,        \* HubInternal.topics: topic id -> senders (channel ids)
    chans,         \* the crossbeam channels: id -> [topic, queue, live]
    held,          \* per channel, what its receiving thread received last
    npub,          \* how many values the publishers of the hub have made
    ever_ids,      \* history: every LineId a line of the buffer has carried
    lock,          \* the thread inside Hub.internal's Mutex, "" if it is free
    pending,       \* the publishes the core thread's dispatch has still to make
    ncalls,        \* how many hub calls the threads other than core have made
    now,           \* Instant::now(), in nanoseconds
    start_time,    \* Bouncer.start_time
    deadline,      \* Bouncer.deadline
    millis_budget, \* Bouncer.millis_budget
    hot_deadline_proximity,  \* Bouncer.hot_deadline_proximity
    latest_state,  \* highlight.rs:87, the Mutex<Option<TextView>> of the coalescer
    worker,        \* the highlighter thread: [pc, text, prev_hl_state]
    burst,         \* history: revisions of the TextViews published during the pass
    superseded,    \* history: revisions published during a pass, all but the last
    last_state,    \* the display thread's StateForDisplay (terminal.rs:75-78)
    display,       \* TerminalDisplay, whether a render is due, and what the
                   \* last two passes saw and wrote
    followed,      \* history: how many commands of Script the session has been
                   \* given, in order and from the start; -1 once it was given another
    threads,       \* the threads beside the core thread: which of them run, which
                   \* hold a clone of the Hub, how many events the input has given
    typedstore,    \* a TypedStore: the map all its clones share, and how many
                   \* handles (the store and its clones) there are
    set_log,       \* history: the set calls made on the store, in order
    structural,    \* history: the structural changes made to the Text directly,
                   \* each with its index and the revision it produced
    frame,         \* the display thread's place in its loop, the timeout its
                   \* select waits for, and (history) how many snapshots it has
                   \* received and how many of them a render pass has been given
    bus            \* the threads that call one Hub concurrently: where each is in
                   \* its call, the sender a publisher's loop is at, the calls made,
                   \* and (history) whether a registration waited for a publish

sessionVars == <<text, heap, cursor_pos, status_text, mode, command_line, file,
                 running, panicked, ever_ids>>
hubVars == <<topics, chans, held, npub>>
threadVars == <<lock, pending, ncalls>>
bouncerVars == <<now, start_time, deadline, millis_budget, hot_deadline_proximity>>
hlVars == <<latest_state, worker, burst, superseded>>
renderVars == <<last_state, display>>
storeVars == <<typedstore, set_log>>

\* ------------------------------------------------------------ src/text.rs
\* address of the lazy_static EMPTY_STRING
EMPTY_STRING == 1

line_count(W) == Len(W.text.lines)
char_count(l) == Len(l.content)

Panic(W, msg) == IF W.panic = "" THEN [W EXCEPT !.panic = msg] ELSE W

bump_line_id_stuck(W) == W
bump_line_id(W) == [W EXCEPT !.text.next_line_id = @ + 1]

bump_rev_stuck(W) == W
bump_rev(W) == [W EXCEPT !.text.rev = @ + 1]

\* Text::line_changed: insert (ln_number -> rev), drop every larger key
line_changed(W, ln_number) ==
    [W EXCEPT !.text.revs_before =
        [k \in {j \in DOMAIN @ : j <= ln_number} \cup {ln_number} |->
            IF k = ln_number THEN W.text.rev ELSE @[k]]]

\* Line::on_content_change: content_string = Arc::new(content.iter().collect())
on_content_change_in_place(W, n) ==
    [W EXCEPT !.heap[W.text.lines[n + 1].content_string] = W.text.lines[n + 1].content]
on_content_change(W, n) ==
    [W EXCEPT !.heap = Append(@, W.text.lines[n + 1].content),
              !.text.lines[n + 1].content_string = Len(W.heap) + 1]

\* Line::insert on line n
line_insert(W, n, index, c) ==
    IF index > char_count(W.text.lines[n + 1])
    THEN Panic(W, "insertion index out of bounds")
    ELSE on_content_change([W EXCEPT !.text.lines[n + 1].content = vec_insert(@, index, c)], n)

\* Line::remove_char on line n
line_remove_char(W, n, index) ==
    IF index >= char_count(W.text.lines[n + 1])
    THEN Panic(W, "removal index out of bounds")
    ELSE on_content_change([W EXCEPT !.text.lines[n + 1].content = vec_remove(@, index)], n)

\* Line::split_off on line n: the line keeps content[0..index]; the caller
\* gets split_tail
split_tail(l, index) == SubSeq(l.content, index + 1, Len(l.content))
line_split_off(W, n, index) ==
    IF index > char_count(W.text.lines[n + 1])
    THEN Panic(W, "split_off at > len")
    ELSE on_content_change([W EXCEPT !.text.lines[n + 1].content = SubSeq(@, 1, index)], n)

\* Line::extend_line on line n with the (already removed) line other
extend_line_before(W, n, other) ==
    IF \E i \in 1..Len(other.content) : other.content[i] = NL
    THEN Panic(W, "assertion failed: !other.content.contains(&'\\n')")
    ELSE on_content_change([W EXCEPT !.text.lines[n + 1].content = other.content \o @], n)
extend_line(W, n, other) ==
    IF \E i \in 1..Len(other.content) : other.content[i] = NL
    THEN Panic(W, "assertion failed: !other.content.contains(&'\\n')")
    ELSE on_content_change([W EXCEPT !.text.lines[n + 1].content = @ \o other.content], n)

\* Text::line_mut: the &mut Line it returns is line ln_number of the result
line_mut(W, ln_number) ==
    LET W1 == bump_rev(W)
        W2 == line_changed(W1, ln_number)
    IN  IF ln_number < line_count(W2)
        THEN [W2 EXCEPT !.text.lines[ln_number + 1].rev = W1.text.rev]
        ELSE W2

RECURSIVE push_empty_lines(_, _)
push_empty_lines(W, number_of_new_lines) ==
    IF number_of_new_lines = 0 THEN W
    ELSE LET W1 == bump_line_id(W)
             l == [id |-> W1.text.next_line_id, rev |-> W1.text.rev,
                   content |-> <<>>, content_string |-> EMPTY_STRING]
         IN  push_empty_lines([W1 EXCEPT !.text.lines = Append(@, l)],
                              number_of_new_lines - 1)

\* Text::line_mut_populate
line_mut_populate(W, ln_number) ==
    LET W1 == bump_rev(W)
    IN  IF line_count(W1) > ln_number
        THEN line_changed(W1, ln_number)
        ELSE push_empty_lines(W1, ln_number - line_count(W1) + 1)

\* Text::remove_line; the Option<Line> it returns is line ln_number of W
remove_line(W, ln_number) ==
    IF line_count(W) <= ln_number THEN W
    ELSE LET W1 == line_changed(bump_rev(W), ln_number)
         IN  [W1 EXCEPT !.text.lines = vec_remove(@, ln_number)]

\* Text::insert_line_from_chars
insert_line_from_chars(W, ln_number, chars) ==
    LET W1 == bump_rev(W)
        W2 == bump_line_id(W1)
        l == [id |-> W2.text.next_line_id, rev |-> W1.text.rev,
              content |-> chars, content_string |-> Len(W2.heap) + 1]
        W3 == [W2 EXCEPT !.heap = Append(@, chars)]
    IN  IF ln_number > line_count(W3)
        THEN Panic(W3, "insertion index out of bounds")
        ELSE line_changed([W3 EXCEPT !.text.lines = vec_insert(@, ln_number, l)],
                          ln_number)

\* Text::insert_line
insert_line(W, ln_number, s) ==
    LET W1 == bump_rev(W)
        W2 == [W1 EXCEPT !.heap = Append(@, s)]
        W3 == bump_line_id(W2)
        l == [id |-> W3.text.next_line_id, rev |-> W1.text.rev,
              content |-> s, content_string |-> Len(W2.heap)]
    IN  IF ln_number > line_count(W3)
        THEN Panic(W3, "insertion index out of bounds")
        ELSE line_changed([W3 EXCEPT !.text.lines = vec_insert(@, ln_number, l)],
                          ln_number)

\* One LineView of Text::view, given the running maximum before the line
line_view_own_rev(ln, ln_number, max_rev_so_far) ==
    [max_rev_before |-> ln.rev, line_number |-> ln_number,
     content_string |-> ln.content_string, line_id |-> ln.id, line_rev |-> ln.rev]
line_view(ln, ln_number, max_rev_so_far) ==
    [max_rev_before |-> IF ln.rev > max_rev_so_far THEN ln.rev ELSE max_rev_so_far,
     line_number |-> ln_number,
     content_string |-> ln.content_string, line_id |-> ln.id, line_rev |-> ln.rev]

RECURSIVE view_lines(_, _, _)
view_lines(lines, max_rev_so_far, acc) ==
    IF Len(acc) = Len(lines) THEN acc
    ELSE LET ln == lines[Len(acc) + 1]
             lv == line_view(ln, Len(acc), max_rev_so_far)
         IN  view_lines(lines,
                        IF ln.rev > max_rev_so_far THEN ln.rev ELSE max_rev_so_far,
                        Append(acc, lv))

\* Text::view
view(W) == [rev |-> W.text.rev, lines |-> view_lines(W.text.lines, 0, <<>>)]

\* Text::new
Text_new == [rev |-> 0, next_line_id |-> 0, revs_before |-> <<>>, lines |-> <<>>]

\* Text::from(lines), with the Arc::new of each line's String
RECURSIVE Text_from_push(_, _)
Text_from_push(W, ls) ==
    IF ls = <<>> THEN W
    ELSE LET W1 == bump_line_id(W)
             l == [id |-> W1.text.next_line_id, rev |-> 0,
                   content |-> Head(ls), content_string |-> Len(W1.heap) + 1]
         IN  Text_from_push([W1 EXCEPT !.text.lines = Append(@, l),
                                       !.heap = Append(@, Head(ls))],
                            Tail(ls))

\* ----------------------------------------------------------- src/state.rs
Modes == {"Insert", "Normal", "Command"}

\* Hub::send(topic, value) as seen from the session: the result is only logged
\* (state.rs:172-180, 329-331), so the handler just hands the value over.
send(W, topic, value) == [W EXCEPT !.out = Append(@, [topic |-> topic, value |-> value])]

StateSnapshot(W) ==
    [cursor_pos |-> W.cursor_pos, text |-> view(W), status_text |-> W.status_text,
     mode |-> W.mode, command_line |-> W.command_line]

\* State::notify_change
notify_change(W) == send(W, state_update_topic, StateSnapshot(W))

\* State::notify_text_change
notify_text_change(W) == notify_change(send(W, text_update_topic, view(W)))

\* State::shift_mode
shift_mode_keeping_command(W, m) == notify_change([W EXCEPT !.mode = m])
shift_mode(W, m) == notify_change([W EXCEPT !.mode = m, !.command_line = <<>>])

\* State::insert
insert(W, c) ==
    CASE W.mode = "Insert" ->
            LET cur_ln == W.cursor_pos.line_number
                cur_col == W.cursor_pos.colmun
                W1 == line_mut_populate(W, cur_ln)
                l == W1.text.lines[cur_ln + 1]
            IN  IF ~(cur_col <= char_count(l))
                THEN Panic(W1, "assertion failed: cur_col <= l.char_count()")
                ELSE IF c = NL
                THEN LET W2 == line_split_off(W1, cur_ln, cur_col)
                         W3 == insert_line_from_chars(W2, cur_ln + 1, split_tail(l, cur_col))
                         W4 == [W3 EXCEPT !.cursor_pos.line_number = @ + 1,
                                          !.cursor_pos.colmun = 0,
                                          !.status_text = <<"char", 0, cur_ln + 1, cur_col>>]
                     IN  notify_text_change(W4)
                ELSE LET W2 == line_insert(W1, cur_ln, cur_col, c)
                         W3 == [W2 EXCEPT !.cursor_pos.colmun = @ + 1,
                                          !.status_text = <<"char", as_u8(c), cur_ln, cur_col>>]
                     IN  notify_text_change(W3)
      [] W.mode = "Command" ->
            IF c = NL THEN W
            ELSE notify_change([W EXCEPT !.command_line = Append(@, c)])
      [] OTHER -> W

\* State::write. io is what the operating system does with the file:
\* "ok", or the call that fails. The lines are buffered by a BufWriter that
\* the code never flushes: it is flushed when dropped, after set_len, and an
\* error then is ignored ("flush_err"). "write_err" is an error that reaches
\* write_result (a flush forced inside the loop by a full buffer).
IoOutcomes == {"ok", "seek_err", "write_err", "pos_err", "set_len_err", "flush_err"}

RECURSIVE file_bytes(_, _, _)
file_bytes(W, lines, acc) ==
    IF lines = <<>> THEN acc
    ELSE file_bytes(W, Tail(lines), acc \o W.heap[Head(lines).content_string] \o <<NL>>)

write(W, io) ==
    IF ~is_some(W.file) THEN W
    ELSE CASE io = "seek_err" -> Panic(W, "seeking to start of file")
           [] io = "write_err" ->
                [W EXCEPT !.status_text = <<"Failed to save file">>]
           [] io = "pos_err" ->
                Panic(W, "Unable to determine length of file being written")
           [] io = "set_len_err" ->
                Panic(W, "Unable to truncate file after writing")
           [] io = "flush_err" -> [W EXCEPT !.file = Some(<<>>)]
           [] OTHER ->
                [W EXCEPT !.file = Some(file_bytes(W, view(W).lines, <<>>))]

\* State::commit_command
commit_command_after_reset(W, io) ==
    LET W1 == shift_mode(W, "Normal")
        action == W1.command_line
    IN  IF action = <<"q">> THEN [W1 EXCEPT !.action = "Quit"]
        ELSE IF action = <<"w">> THEN write(W1, io)
        ELSE W1
commit_command(W, io) ==
    LET action == W.command_line
        W1 == shift_mode(W, "Normal")
    IN  IF action = <<"q">> THEN [W1 EXCEPT !.action = "Quit"]
        ELSE IF action = <<"w">> THEN write(W1, io)
        ELSE W1

\* State::delete, Mode::Insert with the cursor at column 0
delete_at_line_start_any(W) ==
    LET cur_row == W.cursor_pos.line_number
    IN  IF cur_row = 0
        THEN IF line_count(W) = 1
             THEN remove_line(W, 0)
             ELSE W
        ELSE LET end_of_prev_line ==
                     IF cur_row - 1 < line_count(W)
                     THEN char_count(W.text.lines[cur_row]) ELSE 0
                 W1 == remove_line(W, cur_row)
                 W2 == IF cur_row < line_count(W)
                       THEN LET cur_line == W.text.lines[cur_row + 1]
                                W1a == line_mut(W1, cur_row - 1)
                            IN  IF cur_row - 1 < line_count(W1a)
                                THEN extend_line(W1a, cur_row - 1, cur_line)
                                ELSE W1a
                       ELSE W1
             IN  notify_text_change(
                     [W2 EXCEPT !.cursor_pos = [line_number |-> cur_row - 1,
                                                colmun |-> end_of_prev_line]])
delete_at_line_start(W) ==
    LET cur_row == W.cursor_pos.line_number
    IN  IF cur_row = 0
        THEN IF line_count(W) = 1 /\ char_count(W.text.lines[1]) = 0
             THEN remove_line(W, 0)
             ELSE W
        ELSE LET end_of_prev_line ==
                     IF cur_row - 1 < line_count(W)
                     THEN char_count(W.text.lines[cur_row]) ELSE 0
                 W1 == remove_line(W, cur_row)
                 W2 == IF cur_row < line_count(W)
                       THEN LET cur_line == W.text.lines[cur_row + 1]
                                W1a == line_mut(W1, cur_row - 1)
                            IN  IF cur_row - 1 < line_count(W1a)
                                THEN extend_line(W1a, cur_row - 1, cur_line)
                                ELSE W1a
                       ELSE W1
             IN  notify_text_change(
                     [W2 EXCEPT !.cursor_pos = [line_number |-> cur_row - 1,
                                                colmun |-> end_of_prev_line]])

\* State::delete
delete(W) ==
    CASE W.mode = "Insert" ->
            LET cur_col == W.cursor_pos.colmun
            IN  IF cur_col > 0
                THEN LET W1 == line_mut(W, W.cursor_pos.line_number)
                         W2 == IF W.cursor_pos.line_number < line_count(W1)
                               THEN LET W1a == line_remove_char(W1, W.cursor_pos.line_number,
                                                                cur_col - 1)
                                    IN  [W1a EXCEPT !.cursor_pos.colmun = saturating_sub(@, 1)]
                               ELSE W1
                     IN  notify_text_change(W2)
                ELSE delete_at_line_start(W)
      [] W.mode = "Command" ->
            IF Len(W.command_line) > 0
            THEN [W EXCEPT !.command_line = vec_remove(@, Len(@) - 1)]
            ELSE shift_mode(W, "Normal")
      [] OTHER -> W

\* The assertions that end State::move_cursor (state.rs:396-400)
move_cursor_asserts(W) ==
    IF ~(W.cursor_pos.line_number <= line_count(W))
    THEN Panic(W, "assertion failed: line_number <= line_count")
    ELSE IF W.cursor_pos.line_number < line_count(W)
            /\ ~(W.cursor_pos.colmun
                    <= char_count(W.text.lines[W.cursor_pos.line_number + 1]))
    THEN Panic(W, "assertion failed: colmun <= line.char_count()")
    ELSE W

\* State::move_cursor((ln, 0)), ln # 0
move_cursor_lines_unclamped(W, ln) ==
    notify_change([W EXCEPT !.cursor_pos.line_number =
                                IF ln >= 0 THEN @ + ln ELSE saturating_sub(@, -ln)])
move_cursor_lines(W, ln) ==
    LET line_number ==
            clamp(IF ln >= 0 THEN W.cursor_pos.line_number + ln
                  ELSE saturating_sub(W.cursor_pos.line_number, -ln),
                  0, saturating_sub(line_count(W), 1))
        colmun ==
            IF line_number < line_count(W)
            THEN clamp(W.cursor_pos.colmun, 0, char_count(W.text.lines[line_number + 1]))
            ELSE 0
    IN  notify_change([W EXCEPT !.cursor_pos = [line_number |-> line_number,
                                                colmun |-> colmun]])

\* State::move_cursor((0, col)), col # 0
move_cursor_columns(W, col) ==
    IF W.cursor_pos.line_number < line_count(W)
    THEN LET n == char_count(W.text.lines[W.cursor_pos.line_number + 1])
         IN  notify_change(
                 [W EXCEPT !.cursor_pos.colmun =
                     IF col >= 0 THEN clamp(@ + col, 0, n)
                     ELSE clamp(saturating_sub(@, -col), 0, n)])
    ELSE W

\* State::move_cursor
move_cursor(W, direction) ==
    LET ln == direction[1]
        col == direction[2]
    IN  CASE ln = 0 /\ col = 0 -> move_cursor_asserts(W)
          [] ln # 0 /\ col = 0 -> move_cursor_asserts(move_cursor_lines(W, ln))
          [] ln = 0 /\ col # 0 -> move_cursor_asserts(move_cursor_columns(W, col))
          [] OTHER ->
                LET W1 == move_cursor_asserts(move_cursor_lines(W, ln))
                IN  IF W1.panic # "" THEN W1
                    ELSE move_cursor_asserts(
                             move_cursor_asserts(move_cursor_columns(W1, col)))

\* Command (state.rs:76-86) as a tuple: <<kind, arguments...>>
Deltas == {-2, 0, 1}
CommandsTyping(chars) ==
    {<<"ShiftMode", m>> : m \in Modes}
    \cup {<<"DeleteAtCursor">>, <<"CommitCommandline">>}
    \cup {<<"InsertAtCursor", c>> : c \in chars}
    \cup {<<"MoveCursor", d[1], d[2]>> : d \in Deltas \X Deltas}
\* In Insert mode the model types BufferChars, elsewhere CommandChars.
Commands == CommandsTyping(IF mode = "Insert" THEN BufferChars ELSE CommandChars)
\* The commands of the pipeline specification: the cursor is placed in
\* Normal mode, one axis at a time, and the session then stays in Insert mode.
PipeCommands ==
    {c \in CommandsTyping(BufferChars) :
        /\ c # <<"ShiftMode", "Command">> /\ c # <<"CommitCommandline">>
        /\ c # <<"ShiftMode", "Normal">>
        /\ c[1] = "MoveCursor" => (c[2] = 0) # (c[3] = 0)}

\* input_map: the Command of a key in a mode, None for a key without one.
\* A key is "Esc", "Backspace" or the character of Key::Char.
input_map(current_mode, k) ==
    CASE current_mode = "Insert" ->
            CASE k = "Esc" -> Some(<<"ShiftMode", "Normal">>)
              [] k = "Backspace" -> Some(<<"DeleteAtCursor">>)
              [] OTHER -> Some(<<"InsertAtCursor", k>>)
      [] current_mode = "Command" ->
            CASE k = "Esc" -> Some(<<"ShiftMode", "Normal">>)
              [] k = NL -> Some(<<"CommitCommandline">>)
              [] k = "Backspace" -> Some(<<"DeleteAtCursor">>)
              [] OTHER -> Some(<<"InsertAtCursor", k>>)
      [] OTHER ->
            CASE k = "u" -> Some(<<"MoveCursor", -1, 0>>)
              [] k = "o" -> Some(<<"MoveCursor", 0, 1>>)
              [] k = "e" -> Some(<<"MoveCursor", 1, 0>>)
              [] k = "n" -> Some(<<"MoveCursor", 0, -1>>)
              [] k = ":" -> Some(<<"ShiftMode", "Command">>)
              [] k = "i" -> Some(<<"ShiftMode", "Insert">>)
              [] OTHER -> None

\* State::dispatch
dispatch_moving_in_any_mode(W, c, io) ==
    IF c[1] = "ShiftMode"
    THEN notify_change(shift_mode(W, c[2]))
    ELSE IF c[1] = "MoveCursor" THEN move_cursor(W, <<c[2], c[3]>>)
    ELSE CASE W.mode = "Insert" ->
                CASE c[1] = "DeleteAtCursor" -> delete(W)
                  [] c[1] = "InsertAtCursor" -> insert(W, c[2])
                  [] OTHER -> W
           [] W.mode = "Command" ->
                CASE c[1] = "DeleteAtCursor" -> delete(W)
                  [] c[1] = "InsertAtCursor" -> insert(W, c[2])
                  [] c[1] = "CommitCommandline" -> commit_command(W, io)
                  [] OTHER -> W
           [] OTHER -> W
dispatch(W, c, io) ==
    IF c[1] = "ShiftMode"
    THEN notify_change(shift_mode(W, c[2]))
    ELSE CASE W.mode = "Insert" ->
                CASE c[1] = "DeleteAtCursor" -> delete(W)
                  [] c[1] = "InsertAtCursor" -> insert(W, c[2])
                  [] OTHER -> W
           [] W.mode = "Command" ->
                CASE c[1] = "DeleteAtCursor" -> delete(W)
                  [] c[1] = "InsertAtCursor" -> insert(W, c[2])
                  [] c[1] = "CommitCommandline" -> commit_command(W, io)
                  [] OTHER -> W
           [] OTHER ->
                CASE c[1] = "MoveCursor" -> move_cursor(W, <<c[2], c[3]>>)
                  [] OTHER -> W

\* ---------------------------------------------------------- src/pubsub.rs
\* The hub is H = [topics, chans, npub]. A topic id is <<name, payload type>>
\* (TopicIdInternal::Type); chans[ch] is the channel whose Sender the topic
\* keeps and whose Receiver get_receiver returned: topic is the topic it was
\* made for, queue the values sent and not yet received, live whether the
\* Receiver still exists, born the number of publishes made before it existed.
Hub == [topics |-> topics, chans |-> chans, npub |-> npub]

\* HubInternal::get_or_create_topic
get_or_create_topic(H, topic) ==
    IF topic \in DOMAIN H.topics THEN H
    ELSE [H EXCEPT !.topics = [t \in DOMAIN @ \cup {topic} |->
                                  IF t = topic THEN <<>> ELSE @[t]]]

\* channel::unbounded(): a send on it never waits for room
has_room_bounded(queue) == Len(queue) < 1
has_room(queue) == TRUE

\* HubInternal::get_receiver; the Receiver it returns is channel Len(chans)
get_receiver_replaying(H, topic) ==
    LET H1 == get_or_create_topic(H, topic)
        old == H1.topics[topic]
        ch == Len(H1.chans) + 1
    IN  [H1 EXCEPT !.chans = Append(@, [topic |-> topic,
                                        queue |-> IF old = <<>> THEN <<>>
                                                  ELSE H1.chans[old[1]].queue,
                                        live |-> TRUE, born |-> H1.npub]),
                   !.topics[topic] = Append(@, ch)]
get_receiver(H, topic) ==
    LET H1 == get_or_create_topic(H, topic)
        ch == Len(H1.chans) + 1
    IN  [H1 EXCEPT !.chans = Append(@, [topic |-> topic, queue |-> <<>>,
                                        live |-> TRUE, born |-> H1.npub]),
                   !.topics[topic] = Append(@, ch)]

\* Vec::swap_remove(index)
swap_remove_popping(v, index) == SubSeq(v, 1, Len(v) - 1)
swap_remove(v, index) ==
    IF index = Len(v) - 1 THEN SubSeq(v, 1, Len(v) - 1)
    ELSE SubSeq([v EXCEPT ![index + 1] = v[Len(v)]], 1, Len(v) - 1)

\* the indices pushed to closed_channels (pubsub.rs:102-107), in order
RECURSIVE closed_channels(_, _, _)
closed_channels(H, senders, i) ==
    IF i = Len(senders) THEN <<>>
    ELSE (IF H.chans[senders[i + 1]].live THEN <<>> ELSE <<i>>)
         \o closed_channels(H, senders, i + 1)

\* for closed in closed_channels.iter().rev() { senders.swap_remove(*closed) }
RECURSIVE prune(_, _)
prune(senders, closed) ==
    IF closed = <<>> THEN senders
    ELSE prune(swap_remove(senders, closed[Len(closed)]),
               SubSeq(closed, 1, Len(closed) - 1))

\* HubInternal::send, the hub it leaves
hub_send_by_name(H, topic, value) ==
    LET H1 == get_or_create_topic(H, topic)
        senders == H1.topics[topic]
    IN  [H1 EXCEPT !.chans = [ch \in DOMAIN @ |->
                                 IF @[ch].topic[1] = topic[1] /\ @[ch].live
                                 THEN [@[ch] EXCEPT !.queue = Append(@, value)]
                                 ELSE @[ch]],
                   !.topics[topic] = prune(senders, closed_channels(H1, senders, 0))]
hub_send(H, topic, value) ==
    LET H1 == get_or_create_topic(H, topic)
        senders == H1.topics[topic]
        to == {senders[i] : i \in 1..Len(senders)}
    IN  [H1 EXCEPT !.chans = [ch \in DOMAIN @ |->
                                 IF ch \in to /\ @[ch].live
                                 THEN [@[ch] EXCEPT !.queue = Append(@, value)]
                                 ELSE @[ch]],
                   !.topics[topic] = prune(senders, closed_channels(H1, senders, 0))]

\* HubInternal::send, the Result it returns: TRUE for Ok(()), FALSE for Err(())
hub_send_ok_unpruned(H, topic, value) ==
    Len(get_or_create_topic(H, topic).topics[topic]) > 0
hub_send_ok(H, topic, value) == Len(hub_send(H, topic, value).topics[topic]) > 0

\* the publishes of one handler, made in order
RECURSIVE deliver(_, _)
deliver(H, out) ==
    IF out = <<>> THEN H
    ELSE deliver(hub_send(H, Head(out).topic, Head(out).value), Tail(out))

\* --------------------------------------------------- src/highlight.rs
\* HighlightState::topic
highlight_topic == <<"highlight", "HighlightState">>

\* HighlightState { highlighted_lines: HashMap::new() } (highlight.rs:115-117);
\* the map is a function from LineId
HighlightState_new == [highlighted_lines |-> <<>>]

\* syntect::util::as_24_bit_terminal_escaped on the ranges of a line: the
\* line's text between escape sequences
as_24_bit_terminal_escaped(line_text) == <<"\\e">> \o line_text

\* HighlightRev::from: the hash of the highlighter's output and the line id,
\* taken to be free of collisions
HighlightRev_from(highlighter_output, line_id) ==
    [output |-> highlighter_output, id |-> line_id]

\* HashMap::insert
map_insert(m, k, v) == [x \in DOMAIN m \cup {k} |-> IF x = k THEN v ELSE m[x]]

\* One line of a pass (highlight.rs:138-149) on the state built so far
highlight_line(new_state, line, h) ==
    LET escaped == as_24_bit_terminal_escaped(h[line.content_string])
    IN  [new_state EXCEPT !.highlighted_lines =
            map_insert(@, line.line_id,
                       [highlighted_text |-> escaped,
                        highlighted_line_rev |-> line.max_rev_before,
                        highlight_rev |-> HighlightRev_from(escaped, line.line_id)])]

\* The loop of a pass from line i on (highlight.rs:138-154): the state it
\* builds and the states it publishes on the way
RECURSIVE pass_lines(_, _, _, _, _)
pass_lines(lines, i, new_state, out, h) ==
    IF i > Len(lines) THEN [new_state |-> new_state, out |-> out]
    ELSE LET st == highlight_line(new_state, lines[i], h)
             ln == lines[i].line_number
         IN  pass_lines(lines, i + 1, st,
                        IF ln > 0 /\ ln % 20 = 0 THEN Append(out, st) ELSE out, h)

\* A whole pass over text (highlight.rs:130-163): what it publishes, the
\* completion publish last, and the prev_hl_state it leaves
highlight_pass(prev_hl_state, tv, h) ==
    LET r == pass_lines(tv.lines, 1, prev_hl_state, <<>>, h)
        seen_lines == {tv.lines[i].line_id : i \in 1..Len(tv.lines)}
    IN  [out |-> Append(r.out, r.new_state),
         prev_hl_state |-> [highlighted_lines |->
                               [id \in DOMAIN r.new_state.highlighted_lines \cap seen_lines |->
                                   r.new_state.highlighted_lines[id]]]]

\* *state_holder = Some(state) (highlight.rs:98)
store_first(slot, state) == IF is_some(slot) THEN slot ELSE Some(state)
store_latest(slot, state) == Some(state)

\* ---------------------------------------------------- src/terminal.rs
\* termion::terminal_size(): (w, h), the same at every call
terminal_size == <<20, 4>>

\* LineDisplayRevision::New, LineDisplayRevision::from
New == [tag |-> "New"]
LineDisplayRevision_from(line_id, line_rev, hl_rev, screen_dims) ==
    [tag |-> "Previous", line_id |-> line_id, line_rev |-> Some(line_rev),
     hl_rev |-> hl_rev, screen_dims |-> screen_dims]

\* LineDisplayRevision::is_new
is_new(self, previous) ==
    IF self.tag = "New" \/ previous.tag = "New" THEN TRUE
    ELSE \/ self.line_id # previous.line_id
         \/ previous.line_rev = None \/ self.line_rev # previous.line_rev
         \/ previous.hl_rev = None \/ self.hl_rev # previous.hl_rev
         \/ self.screen_dims # previous.screen_dims

\* HighlightState::highlighted_line
highlighted_line(hls, line) ==
    IF line.line_id \in DOMAIN hls.highlighted_lines
       /\ hls.highlighted_lines[line.line_id].highlighted_line_rev >= line.line_rev
    THEN Some(hls.highlighted_lines[line.line_id])
    ELSE None

\* TextView::iter_line_range
iter_line_range(tv, start, end) ==
    SubSeq(tv.lines, start + 1, IF Len(tv.lines) < end THEN Len(tv.lines) ELSE end)

\* Vec::resize(new_len, New)
resize(v, new_len) ==
    [i \in 1..new_len |-> IF i <= Len(v) THEN v[i] ELSE New]

\* TerminalDisplay as terminal_display builds it, before any pass; writes are
\* the writes of the last pass to the text rows, keys the key of each row that
\* showed a line, seen what the pass was given; prev_keys and prev_seen are
\* those of the pass before; screen is what each text row of the terminal
\* shows, the last write to it
TerminalDisplay_new ==
    [top_line |-> 0, last_displayed |-> <<>>, marked |-> FALSE, passes |-> 0,
     writes |-> <<>>, keys |-> <<>>, seen |-> None,
     prev_keys |-> <<>>, prev_seen |-> None, screen |-> <<>>]

\* A write to a row of the terminal from its first column, after
\* clear::CurrentLine
write_row(screen, output_line, shown) ==
    [r \in DOMAIN screen \cup {output_line} |-> IF r = output_line THEN shown ELSE screen[r]]

\* The rows of TerminalDisplay::update from output_line on (terminal.rs:202-259)
RECURSIVE update_rows(_, _, _, _, _, _)
update_rows(D, text_lines, output_line, text_view_height, hlstate, h) ==
    IF output_line > text_view_height THEN D
    ELSE IF text_lines = <<>>
    THEN update_rows([D EXCEPT !.writes = Append(@, [row |-> output_line, kind |-> "blank"]),
                               !.screen = write_row(@, output_line, [kind |-> "blank"])],
                     <<>>, output_line + 1, text_view_height, hlstate, h)
    ELSE LET line == Head(text_lines)
             txt == h[line.content_string]
             hll == IF is_some(hlstate) THEN highlighted_line(unwrap(hlstate), line) ELSE None
             escaped == IF is_some(hll) THEN unwrap(hll).highlighted_text ELSE txt
             hl_rev == IF is_some(hll) THEN Some(unwrap(hll).highlight_rev) ELSE None
             now_key == LineDisplayRevision_from(line.line_id, line.line_rev, hl_rev,
                                                 terminal_size)
             should_render == is_new(now_key, D.last_displayed[output_line + 1])
             D1 == IF should_render
                   THEN [D EXCEPT !.writes = Append(@, [row |-> output_line, kind |-> "line",
                                                        text |-> escaped]),
                                  !.screen = write_row(@, output_line,
                                                 [kind |-> "line", text |-> escaped]),
                                  !.last_displayed[output_line + 1] = now_key]
                   ELSE [D EXCEPT !.writes = Append(@, [row |-> output_line, kind |-> "@"])]
         IN  update_rows([D1 EXCEPT !.keys = Append(@, now_key)],
                         Tail(text_lines), output_line + 1, text_view_height, hlstate, h)

\* TerminalDisplay::update
update(D, state, h) ==
    LET text_view_height == terminal_size[2] - 2
        D0 == [D EXCEPT !.last_displayed = resize(@, terminal_size[2] + 1),
                        !.prev_keys = D.keys, !.prev_seen = D.seen,
                        !.keys = <<>>, !.writes = <<>>, !.seen = Some(state),
                        !.passes = IF @ < 2 THEN @ + 1 ELSE @]
    IN  IF is_some(state.editor_state)
        THEN LET editor_state == unwrap(state.editor_state)
                 top_line == saturating_sub(editor_state.cursor_pos.line_number,
                                            saturating_sub(text_view_height, 1))
             IN  update_rows([D0 EXCEPT !.top_line = top_line],
                             iter_line_range(editor_state.text, top_line,
                                             top_line + text_view_height),
                             1, text_view_height, state.highlighter_state, h)
        ELSE D0

\* ------------------------------------------------- src/bouncer/src/lib.rs
\* Durations and Instants are counted in nanoseconds.
millis(n) == n * 1000000
\* Duration::as_millis: whole milliseconds, the rest is dropped
as_millis(d) == d \div 1000000

\* FRAME_BUDGET (terminal.rs:12)
FRAME_BUDGET == millis(16)

\* Bouncer::builder()...build() at the current instant
build(time_between_deadlines, grace_period) ==
    /\ millis_budget = as_millis(time_between_deadlines)
    /\ hot_deadline_proximity =
           IF is_some(grace_period) THEN Some(as_millis(unwrap(grace_period))) ELSE None
    /\ start_time = now
    /\ deadline = None

\* Bouncer::mark, the deadline it leaves
mark_zero_ahead ==
    IF is_some(deadline) THEN deadline
    ELSE IF millis_budget = 0 THEN Some(now + 1)
    ELSE LET millis_in == IF now >= start_time
                          THEN as_millis(now - start_time) % millis_budget
                          ELSE 0
             time_until_next_deadline == millis_budget - millis_in
             skipped == IF is_some(hot_deadline_proximity)
                           /\ time_until_next_deadline < unwrap(hot_deadline_proximity)
                        THEN time_until_next_deadline + millis_budget
                        ELSE time_until_next_deadline
         IN  Some(now + millis(skipped))
mark_elapsed ==
    IF is_some(deadline) THEN deadline
    ELSE IF millis_budget = 0 THEN Some(now - 1)
    ELSE LET millis_in == IF now >= start_time
                          THEN as_millis(now - start_time) % millis_budget
                          ELSE 0
             time_until_next_deadline == millis_in
             skipped == IF is_some(hot_deadline_proximity)
                           /\ time_until_next_deadline < unwrap(hot_deadline_proximity)
                        THEN time_until_next_deadline + millis_budget
                        ELSE time_until_next_deadline
         IN  Some(now + millis(skipped))
mark_rearming ==
    IF millis_budget = 0 THEN Some(now - 1)
    ELSE LET millis_in == IF now >= start_time
                          THEN as_millis(now - start_time) % millis_budget
                          ELSE 0
             time_until_next_deadline == millis_budget - millis_in
             skipped == IF is_some(hot_deadline_proximity)
                           /\ time_until_next_deadline < unwrap(hot_deadline_proximity)
                        THEN time_until_next_deadline + millis_budget
                        ELSE time_until_next_deadline
         IN  Some(now + millis(skipped))
mark ==
    IF is_some(deadline) THEN deadline
    ELSE IF millis_budget = 0 THEN Some(now - 1)
    ELSE LET millis_in == IF now >= start_time
                          THEN as_millis(now - start_time) % millis_budget
                          ELSE 0
             time_until_next_deadline == millis_budget - millis_in
             skipped == IF is_some(hot_deadline_proximity)
                           /\ time_until_next_deadline < unwrap(hot_deadline_proximity)
                        THEN time_until_next_deadline + millis_budget
                        ELSE time_until_next_deadline
         IN  Some(now + millis(skipped))

\* A Bouncer that never tells how long is left
duration_until_deadline_never == IF is_some(deadline) /\ unwrap(deadline) < 0 THEN Some(0) ELSE None

\* Bouncer::duration_until_deadline
duration_until_deadline ==
    IF is_some(deadline)
    THEN Some(IF unwrap(deadline) >= now THEN unwrap(deadline) - now ELSE 0)
    ELSE None

\* Bouncer::expired
expired == is_some(deadline) /\ unwrap(deadline) <= now

\* ------------------------------------------------- construction (state.rs)
World ==
    [text |-> text, heap |-> heap, cursor_pos |-> cursor_pos,
     status_text |-> status_text, mode |-> mode, command_line |-> command_line,
     file |-> file, out |-> <<>>, action |-> "None", panic |-> ""]

\* BufRead::lines: split at '\n'; a final line without '\n' counts if not empty
\* BufRead::lines: a line ends at "\n", and the "\n" or "\r\n" that ends
\* it is not part of the String returned
CR == "\r"
strip_cr(cur) ==
    IF cur # <<>> /\ cur[Len(cur)] = CR THEN SubSeq(cur, 1, Len(cur) - 1) ELSE cur
RECURSIVE BufRead_lines(_, _, _)
BufRead_lines(bytes, cur, acc) ==
    IF bytes = <<>> THEN (IF cur = <<>> THEN acc ELSE Append(acc, cur))
    ELSE IF Head(bytes) = NL
    THEN BufRead_lines(Tail(bytes), <<>>, Append(acc, strip_cr(cur)))
    ELSE BufRead_lines(Tail(bytes), Append(cur, Head(bytes)), acc)

\* state::empty
empty ==
    [text |-> Text_new, heap |-> <<<<>>>>,
     cursor_pos |-> [line_number |-> 0, colmun |-> 0],
     status_text |-> <<>>, mode |-> "Normal", command_line |-> <<>>,
     file |-> None, out |-> <<>>, action |-> "None", panic |-> ""]

\* state::from_file on a file holding bytes
from_file(bytes) ==
    notify_text_change(
        [Text_from_push(empty, BufRead_lines(bytes, <<>>, <<>>))
            EXCEPT !.file = Some(bytes)])

\* The backing stores the session is opened on.
Files ==
    {<<>>, <<NL>>, <<"w", "q", NL>>, <<"w", NL, "q", NL>>, <<NL, "q">>}
PipeFiles == {<<"w", "q", NL>>, <<"w", NL, "q", NL>>}

\* Hub::new
\* editor.rs:20 and userinput.rs:7: the topic of the input events
input_topic == <<"input", "Event">>
\* crate::editor::shutdown_event_topic (terminal.rs:71)
shutdown_event_topic == <<"shutdown", "()">>

\* The threads as run has spawned them (editor.rs:15-47, highlight.rs:84-104,
\* terminal.rs:46-66). hubs are the holders of a clone of the Hub: run itself,
\* the input, display and core threads and the highlighter thread, which
\* publishes the highlights. The Senders of every topic live in the
\* HubInternal all clones share (pubsub.rs:55-66).
Threads_new ==
    [input |-> "running", display |-> "running", coalescer |-> "running",
     hubs |-> {"run", "input", "display", "core", "highlighter"}, events |-> 0]

Hub_new == [topics |-> <<>>, chans |-> <<>>, npub |-> 0]

RECURSIVE register_all(_, _)
register_all(H, ts) ==
    IF ts = <<>> THEN H ELSE register_all(get_receiver(H, Head(ts)), Tail(ts))

\* The receivers taken before the State is built: the highlighter's on the
\* text topic (highlight.rs:86) and the display's on the state topic
\* (editor.rs:43).
Registrations == <<text_update_topic, state_update_topic>>

\* The display thread before its loop (terminal.rs:66-84)
Frame_new == [pc |-> "top", timeout |-> None, received |-> 0, painted |-> 0]

\* The threads that share the Hub of the bus specification: two publishers
\* and one thread that registers
BusPublishers == {"a", "b"}
BusRegistrar == "r"
BusThreads == BusPublishers \cup {BusRegistrar}
\* None of them has called the Hub yet
Bus_new ==
    [pc |-> [t \in BusThreads |-> "idle"], i |-> [t \in BusPublishers |-> 0],
     sent |-> [t \in BusPublishers |-> 0], registered |-> 0, contended |-> FALSE]

\* TypedStore::new (typedstore lib.rs:16-24): an empty map behind one handle
TypedStore_new == [values |-> {}, handles |-> 1]

InitWith(W, H) ==
    /\ text = W.text
    /\ heap = W.heap
    /\ cursor_pos = W.cursor_pos
    /\ status_text = W.status_text
    /\ mode = W.mode
    /\ command_line = W.command_line
    /\ file = W.file
    /\ running = TRUE
    /\ panicked = ""
    /\ topics = H.topics
    /\ chans = H.chans
    /\ npub = H.npub
    /\ held = [ch \in DOMAIN H.chans |-> None]
    /\ ever_ids = {W.text.lines[i].id : i \in 1..Len(W.text.lines)}
    /\ lock = ""
    /\ pending = <<>>
    /\ ncalls = 0
    /\ latest_state = None
    /\ worker = [pc |-> "idle", text |-> None, prev_hl_state |-> HighlightState_new]
    /\ burst = <<>>
    /\ superseded = {}
    /\ last_state = [editor_state |-> None, highlighter_state |-> None]
    /\ display = TerminalDisplay_new
    /\ followed = 0
    /\ threads = Threads_new
    /\ typedstore = TypedStore_new
    /\ set_log = <<>>
    /\ structural = {}
    /\ frame = Frame_new
    /\ bus = Bus_new

\* render_start_deadline as the display thread builds it (terminal.rs:80-84)
InitClock ==
    /\ now = 0
    /\ build(FRAME_BUDGET, Some(millis(2)))

\* The session on a hub nobody has subscribed to yet.
Init ==
    \E W \in {empty} \cup {from_file(bytes) : bytes \in Files} :
        InitWith(W, deliver(Hub_new, W.out)) /\ InitClock

\* The session on a hub with the highlighter and the display subscribed.
InitPipe ==
    \E W \in {from_file(bytes) : bytes \in PipeFiles} :
        InitWith(W, deliver(register_all(Hub_new, Registrations), W.out)) /\ InitClock

\* ----------------------------------------------------------------- actions
Backlogged == \E ch \in DOMAIN chans : chans[ch].live /\ Len(chans[ch].queue) > MaxBacklog

\* What a handler that leaves the session as W does to the session's variables
SessionStep_going_on(W) ==
    /\ text' = W.text
    /\ heap' = W.heap
    /\ cursor_pos' = W.cursor_pos
    /\ status_text' = W.status_text
    /\ mode' = W.mode
    /\ command_line' = W.command_line
    /\ file' = W.file
    /\ panicked' = W.panic
    /\ running' = (W.panic = "")
    /\ ever_ids' = ever_ids \cup {W.text.lines[i].id : i \in 1..Len(W.text.lines)}
SessionStep(W) ==
    /\ text' = W.text
    /\ heap' = W.heap
    /\ cursor_pos' = W.cursor_pos
    /\ status_text' = W.status_text
    /\ mode' = W.mode
    /\ command_line' = W.command_line
    /\ file' = W.file
    /\ panicked' = W.panic
    /\ running' = (W.action # "Quit" /\ W.panic = "")
    /\ ever_ids' = ever_ids \cup {W.text.lines[i].id : i \in 1..Len(W.text.lines)}

\* One turn of the core loop (editor.rs:56-71) on command c
Dispatch(c, io) ==
    /\ running
    /\ LET W == dispatch(World, c, io)
           H == deliver(Hub, W.out)
       IN  /\ SessionStep(W)
           /\ topics' = H.topics
           /\ chans' = H.chans
           /\ npub' = H.npub
    /\ UNCHANGED <<held, threadVars, bouncerVars, renderVars, hlVars, followed, threads, storeVars, structural, frame, bus>>

\* A subscriber's thread takes the next value from its Receiver
Recv(ch) ==
    /\ chans[ch].live
    /\ chans[ch].queue # <<>>
    /\ held' = [held EXCEPT ![ch] = Some(Head(chans[ch].queue))]
    /\ chans' = [chans EXCEPT ![ch].queue = Tail(@)]
    /\ UNCHANGED <<sessionVars, topics, npub, threadVars, bouncerVars, renderVars, hlVars, followed, threads, storeVars, structural, frame, bus>>

\* A subscriber's thread drops its Receiver (it keeps what it holds)
DropReceiver(ch) ==
    /\ chans[ch].live
    /\ chans' = [chans EXCEPT ![ch].live = FALSE, ![ch].queue = <<>>]
    /\ UNCHANGED <<sessionVars, topics, held, npub, threadVars, bouncerVars, renderVars, hlVars, followed, threads, storeVars, structural, frame, bus>>

vars == <<text, heap, cursor_pos, status_text, mode, command_line, file,
          running, panicked, ever_ids, topics, chans, held, npub,
          lock, pending, ncalls,
          now, start_time, deadline, millis_budget, hot_deadline_proximity,
          latest_state, worker, burst, superseded, last_state, display, followed,
          threads, typedstore, set_log, structural, frame, bus>>

Next ==
    /\ text.rev < MaxRev
    /\ \E c \in Commands :
           /\ (c[1] = "InsertAtCursor" /\ mode = "Command") => Len(command_line) < MaxCmdLen
           /\ Dispatch(c, "ok")

Spec == Init /\ [][Next]_vars

NextPipe ==
    \/ /\ text.rev < MaxPipeRev
       /\ ~Backlogged
       /\ \E c \in PipeCommands : Dispatch(c, "ok")
    \/ \E ch \in DOMAIN chans : Recv(ch)
    \/ \E ch \in DOMAIN chans : DropReceiver(ch)

SpecPipe == InitPipe /\ [][NextPipe]_vars


\* ------------------------------------------------ the hub on its own
\* The topics of the hub specification: two names, two payload types.
HubTopics == {<<"test", "u8">>, <<"test", "str">>, <<"other", "u8">>}

InitHub == InitWith(empty, Hub_new) /\ InitClock

\* Hub::get_receiver(topic), from any thread and through any clone of the Hub
\* (every clone locks the same HubInternal)
Register(topic) ==
    /\ Len(chans) < MaxChans
    /\ LET H == get_receiver(Hub, topic)
       IN  /\ topics' = H.topics
           /\ chans' = H.chans
           /\ held' = Append(held, None)
    /\ UNCHANGED <<sessionVars, npub, threadVars, bouncerVars, renderVars, hlVars, followed, threads, storeVars, structural, frame, bus>>

\* Hub::send(topic, value), from any thread and through any clone of the Hub;
\* the value is the number of the publish
Publish(topic) ==
    /\ npub < MaxPub
    /\ LET H == hub_send(Hub, topic, npub + 1)
       IN  /\ topics' = H.topics
           /\ chans' = H.chans
           /\ npub' = npub + 1
    /\ UNCHANGED <<sessionVars, held, threadVars, bouncerVars, renderVars, hlVars, followed, threads, storeVars, structural, frame, bus>>

NextHub ==
    \/ \E topic \in HubTopics : Register(topic)
    \/ \E topic \in HubTopics : Publish(topic)
    \/ \E ch \in DOMAIN chans : Recv(ch)
    \/ \E ch \in DOMAIN chans : DropReceiver(ch)

SpecHub == InitHub /\ [][NextHub]_vars


\* ---------------------------------------- one topic and its subscriptions
\* The topic whose subscription list is pruned
pruned_topic == <<"test", "u8">>

\* Hub::get_receiver(pruned_topic): one more subscription on the topic
Subscribe ==
    /\ Len(chans) < MaxSubs
    /\ LET H == get_receiver(Hub, pruned_topic)
       IN  /\ topics' = H.topics
           /\ chans' = H.chans
           /\ held' = Append(held, None)
    /\ UNCHANGED <<sessionVars, npub, threadVars, bouncerVars, renderVars, hlVars, followed, threads, storeVars, structural, frame, bus>>

NextPrune ==
    \/ Subscribe
    \/ Publish(pruned_topic)
    \/ \E ch \in DOMAIN chans : DropReceiver(ch)

SpecPrune == InitHub /\ [][NextPrune]_vars

\* ------------------------------------- publishing, one hub call at a time
\* The receivers taken before the core thread builds the State: the
\* highlighter's on the text topic (highlight.rs:86), core's on the highlight
\* topic (editor.rs:22) and the display's on the state topic (editor.rs:43).
PubRegistrations == <<text_update_topic, highlight_topic, state_update_topic>>

InitPub ==
    /\ LET W == from_file(<<"w", NL, "q", NL>>)
       IN  InitWith(W, deliver(register_all(Hub_new, PubRegistrations), W.out))
    /\ InitClock

\* The commands of the publishing specification: typing in Insert mode.
PubCommands == {c \in PipeCommands : c[1] # "MoveCursor"}

\* The senders a send on topic has to hand the value to all have room
senders_have_room(topic) ==
    topic \in DOMAIN topics =>
        \A i \in 1..Len(topics[topic]) :
            chans[topics[topic][i]].live => has_room(chans[topics[topic][i]].queue)

\* The core thread takes command c and runs its handler up to the first
\* publish; the values to publish are those the handler computes in order.
BeginDispatch(c) ==
    /\ running
    /\ pending = <<>>
    /\ LET W == dispatch(World, c, "ok")
       IN  /\ SessionStep(W)
           /\ pending' = W.out
    /\ UNCHANGED <<hubVars, lock, ncalls, bouncerVars, renderVars, hlVars, followed, threads, storeVars, structural, frame, bus>>

\* Hub::send on the core thread: self.internal.lock() (pubsub.rs:80)
CoreLock ==
    /\ pending # <<>>
    /\ lock = ""
    /\ lock' = "core"
    /\ UNCHANGED <<sessionVars, hubVars, pending, ncalls, bouncerVars, renderVars, hlVars, followed, threads, storeVars, structural, frame, bus>>

\* Hub::send on the core thread: internal.send and the guard's drop
\* (pubsub.rs:81-82)
CoreSend ==
    /\ lock = "core"
    /\ senders_have_room(Head(pending).topic)
    /\ LET H == hub_send(Hub, Head(pending).topic, Head(pending).value)
       IN  /\ topics' = H.topics
           /\ chans' = H.chans
    /\ pending' = Tail(pending)
    /\ lock' = ""
    /\ UNCHANGED <<sessionVars, held, npub, ncalls, bouncerVars, renderVars, hlVars, followed, threads, storeVars, structural, frame, bus>>

\* Hub::send on the highlighter thread (highlight.rs:152, 156): the lock
HighlighterLock ==
    /\ ncalls < MaxCalls
    /\ lock = ""
    /\ lock' = "highlighter"
    /\ ncalls' = ncalls + 1
    /\ UNCHANGED <<sessionVars, hubVars, pending, bouncerVars, renderVars, hlVars, followed, threads, storeVars, structural, frame, bus>>

\* Hub::send on the highlighter thread: internal.send and the guard's drop;
\* the value stands for the HighlightState of the pass, numbered by the call
HighlighterSend ==
    /\ lock = "highlighter"
    /\ senders_have_room(highlight_topic)
    /\ LET H == hub_send(Hub, highlight_topic, ncalls)
       IN  /\ topics' = H.topics
           /\ chans' = H.chans
    /\ lock' = ""
    /\ UNCHANGED <<sessionVars, held, npub, pending, ncalls, bouncerVars, renderVars, hlVars, followed, threads, storeVars, structural, frame, bus>>

NextPub ==
    \/ /\ text.rev < MaxPipeRev
       /\ ~Backlogged
       /\ \E c \in PubCommands : BeginDispatch(c)
    \/ CoreLock
    \/ CoreSend
    \/ HighlighterLock
    \/ HighlighterSend
    \/ \E ch \in DOMAIN chans : Recv(ch)
    \/ \E ch \in DOMAIN chans : DropReceiver(ch)

\* A thread that can take the free lock does, and a thread inside the lock
\* finishes its send when nothing holds it back. The other threads make
\* finitely many hub calls while core waits (the highlighter publishes a
\* bounded number of times per text snapshot). Nothing is assumed of the
\* subscribers: they need never receive.
SpecPub ==
    /\ InitPub
    /\ [][NextPub]_vars
    /\ WF_vars(CoreLock)
    /\ WF_vars(CoreSend)
    /\ WF_vars(HighlighterSend)

\* ------------------------------------------- the highlighter's threads
\* The receivers taken before the core thread builds the State: the
\* highlighter's on the text topic (highlight.rs:86) and core's on the
\* highlight topic (editor.rs:22).
HlRegistrations == <<text_update_topic, highlight_topic>>

InitHl ==
    /\ LET W == from_file(<<"w", NL, "q", NL>>)
       IN  InitWith(W, deliver(register_all(Hub_new, HlRegistrations), W.out))
    /\ InitClock

\* text_receiver (highlight.rs:86): the first receiver of the text topic
text_receiver == topics[text_update_topic][1]

\* the Revisions of the TextViews among the publishes out
RECURSIVE text_revs(_)
text_revs(out) ==
    IF out = <<>> THEN <<>>
    ELSE (IF Head(out).topic = text_update_topic THEN <<Head(out).value.rev>> ELSE <<>>)
         \o text_revs(Tail(out))

\* One turn of the core loop on command c, while the highlighter runs
HlDispatch(c) ==
    /\ running
    /\ LET W == dispatch(World, c, "ok")
           H == deliver(Hub, W.out)
       IN  /\ SessionStep(W)
           /\ topics' = H.topics
           /\ chans' = H.chans
           /\ npub' = H.npub
           /\ burst' = IF worker.pc = "pass" THEN burst \o text_revs(W.out) ELSE burst
    /\ UNCHANGED <<held, threadVars, bouncerVars, renderVars, latest_state, worker, superseded, followed, threads, storeVars, structural, frame, bus>>

\* The highlight-coalescer thread, one turn of its loop (highlight.rs:93-100):
\* the next TextView replaces whatever the slot holds, and notify_one wakes
\* the highlighter if it waits
Coalesce ==
    /\ chans[text_receiver].queue # <<>>
    /\ chans' = [chans EXCEPT ![text_receiver].queue = Tail(@)]
    /\ latest_state' = store_latest(latest_state, Head(chans[text_receiver].queue))
    /\ worker' = IF worker.pc = "waiting" THEN [worker EXCEPT !.pc = "idle"] ELSE worker
    /\ UNCHANGED <<sessionVars, topics, held, npub, threadVars, bouncerVars, renderVars,
                   burst, superseded, followed, threads, storeVars, structural, frame, bus>>

\* The highlighter thread finds the slot empty and waits on the Condvar,
\* which releases the Mutex in the same step (highlight.rs:122-125)
WorkerWait ==
    /\ worker.pc = "idle"
    /\ latest_state = None
    /\ worker' = [worker EXCEPT !.pc = "waiting"]
    /\ UNCHANGED <<sessionVars, hubVars, threadVars, bouncerVars, renderVars,
                   latest_state, burst, superseded, followed, threads, storeVars, structural, frame, bus>>

\* The highlighter thread takes the TextView out of the slot and begins a
\* pass over it (highlight.rs:121-136)
WorkerTake ==
    /\ worker.pc = "idle"
    /\ is_some(latest_state)
    /\ worker' = [worker EXCEPT !.pc = "pass", !.text = latest_state]
    /\ latest_state' = None
    /\ burst' = <<>>
    /\ UNCHANGED <<sessionVars, hubVars, threadVars, bouncerVars, renderVars, superseded, followed, threads, storeVars, structural, frame, bus>>

\* the publishes of a pass, as values for the highlight topic
RECURSIVE on_highlight_topic(_)
on_highlight_topic(states) ==
    IF states = <<>> THEN <<>>
    ELSE <<[topic |-> highlight_topic, value |-> Head(states)]>>
         \o on_highlight_topic(Tail(states))

\* The highlighter thread runs the pass to its end (highlight.rs:138-163)
PassEnd ==
    /\ worker.pc = "pass"
    /\ LET r == highlight_pass(worker.prev_hl_state, unwrap(worker.text), heap)
           H == deliver(Hub, on_highlight_topic(r.out))
       IN  /\ topics' = H.topics
           /\ chans' = H.chans
           /\ worker' = [worker EXCEPT !.pc = "idle", !.prev_hl_state = r.prev_hl_state]
    /\ superseded' = IF Len(burst) = 3 THEN superseded \cup {burst[1], burst[2]}
                     ELSE superseded
    /\ burst' = <<>>
    /\ UNCHANGED <<sessionVars, held, npub, threadVars, bouncerVars, renderVars, latest_state, followed, threads, storeVars, structural, frame, bus>>

\* The core thread takes a HighlightState from syntax_updates (editor.rs:72)
RecvHighlight(ch) ==
    /\ chans[ch].topic = highlight_topic
    /\ Recv(ch)

NextHl ==
    \/ /\ text.rev < MaxHlRev
       /\ \E c \in PubCommands : HlDispatch(c)
    \/ Coalesce
    \/ WorkerWait
    \/ WorkerTake
    \/ PassEnd
    \/ \E ch \in DOMAIN chans : RecvHighlight(ch)

\* The threads of the highlighter are scheduled: each takes the step it can
\* take. Nothing is assumed of the session or of the reader of the
\* highlights.
SpecHl ==
    /\ InitHl
    /\ [][NextHl]_vars
    /\ WF_vars(Coalesce)
    /\ WF_vars(WorkerTake)
    /\ WF_vars(PassEnd)

\* ------------------------------------------------- the display thread
\* The session publishes to the highlighter and to the display thread; the
\* display thread listens to state updates and to highlights
\* (highlight.rs:90, terminal.rs:68-69).
RenderRegistrations == <<text_update_topic, state_update_topic, highlight_topic>>

InitRender ==
    /\ LET W == from_file(<<"w", NL, "q", NL>>)
       IN  InitWith(W, deliver(register_all(Hub_new, RenderRegistrations), W.out))
    /\ InitClock

state_receiver == topics[state_update_topic][1]
highlight_receiver == topics[highlight_topic][1]

\* What the user does in this specification: enter Insert mode, type a
\* character, delete, move one line down or one column right.
RenderCommands ==
    {<<"ShiftMode", "Insert">>, <<"InsertAtCursor", "w">>, <<"DeleteAtCursor">>,
     <<"MoveCursor", 1, 0>>, <<"MoveCursor", 0, 1>>}

\* The session handles a command once the display thread has taken every
\* state update of the command before.
RenderDispatch(c) ==
    /\ chans[state_receiver].queue = <<>>
    /\ HlDispatch(c)

\* recv(state_receiver) (terminal.rs:100-109): the snapshot replaces
\* editor_state and the render deadline is marked
RecvState ==
    /\ chans[state_receiver].queue # <<>>
    /\ last_state' = [last_state EXCEPT
                         !.editor_state = Some(Head(chans[state_receiver].queue))]
    /\ chans' = [chans EXCEPT ![state_receiver].queue = Tail(@)]
    /\ display' = [display EXCEPT !.marked = TRUE]
    /\ UNCHANGED <<sessionVars, topics, held, npub, threadVars, bouncerVars, hlVars, followed, threads, storeVars, structural, frame, bus>>

\* recv(highlight_receiver) (terminal.rs:110-120)
RecvDisplayHighlight ==
    /\ chans[highlight_receiver].queue # <<>>
    /\ last_state' = [last_state EXCEPT
                         !.highlighter_state = Some(Head(chans[highlight_receiver].queue))]
    /\ chans' = [chans EXCEPT ![highlight_receiver].queue = Tail(@)]
    /\ display' = [display EXCEPT !.marked = TRUE]
    /\ UNCHANGED <<sessionVars, topics, held, npub, threadVars, bouncerVars, hlVars, followed, threads, storeVars, structural, frame, bus>>

\* The render deadline, marked by a receipt, expires: display.update and
\* clear (terminal.rs:87-91)
Render ==
    /\ display.marked
    /\ display' = [update(display, last_state, heap) EXCEPT !.marked = FALSE]
    /\ UNCHANGED <<sessionVars, hubVars, threadVars, bouncerVars, hlVars, last_state, followed, threads, storeVars, structural, frame, bus>>

NextRender ==
    \/ /\ text.rev < MaxRenderRev
       /\ \E c \in RenderCommands : RenderDispatch(c)
    \/ Coalesce
    \/ WorkerWait
    \/ WorkerTake
    \/ PassEnd
    \/ RecvState
    \/ RecvDisplayHighlight
    \/ Render

SpecRender == InitRender /\ [][NextRender]_vars

\* --------------------------------------- concurrent calls on one Hub
\* Two threads publish on one topic and a third registers on it, each through
\* its clone of the Hub; a publish is followed sender by sender.
bus_topic == <<"bus", "u8">>

\* Two receivers exist on the topic before the threads start
InitBus ==
    /\ InitWith(empty, register_all(Hub_new, <<bus_topic, bus_topic>>))
    /\ InitClock

\* Mutex::lock returns when no thread holds the guard (pubsub.rs:80, 85)
mutex_free_always(l) == l = l
mutex_free(l) == l = ""

\* the value a publisher sends next: its name and the number of the publish
bus_value(t) == <<t, bus.sent[t] + 1>>

\* A thread calls Hub::send or Hub::get_receiver and reaches
\* self.internal.lock() (pubsub.rs:80, 85)
BusCall(t) ==
    /\ bus.pc[t] = "idle"
    /\ IF t = BusRegistrar THEN bus.registered < MaxBusRegs ELSE bus.sent[t] < MaxBusPub
    /\ bus' = [bus EXCEPT !.pc[t] = "lock",
                          !.contended = @ \/ (t = BusRegistrar /\ lock \in BusPublishers)]
    /\ UNCHANGED <<sessionVars, hubVars, threadVars, bouncerVars, renderVars, hlVars,
                   followed, threads, storeVars, structural, frame>>

\* lock() returns the guard: the thread is inside HubInternal::send, before
\* its loop over the senders, or inside HubInternal::get_receiver
BusLock(t) ==
    /\ bus.pc[t] = "lock"
    /\ mutex_free(lock)
    /\ lock' = t
    /\ bus' = IF t = BusRegistrar
              THEN [bus EXCEPT !.pc[t] = "get_receiver"]
              ELSE [bus EXCEPT !.pc[t] = "send", !.i[t] = 0]
    /\ UNCHANGED <<sessionVars, hubVars, pending, ncalls, bouncerVars, renderVars, hlVars,
                   followed, threads, storeVars, structural, frame>>

\* One turn of the loop over the senders (pubsub.rs:102-107): s.send(value.clone())
BusSendOne(t) ==
    /\ bus.pc[t] = "send"
    /\ bus.i[t] < Len(topics[bus_topic])
    /\ LET ch == topics[bus_topic][bus.i[t] + 1]
       IN  chans' = IF chans[ch].live
                    THEN [chans EXCEPT ![ch].queue = Append(@, bus_value(t))]
                    ELSE chans
    /\ bus' = [bus EXCEPT !.i[t] = @ + 1]
    /\ UNCHANGED <<sessionVars, topics, held, npub, threadVars, bouncerVars, renderVars, hlVars,
                   followed, threads, storeVars, structural, frame>>

\* The end of HubInternal::send (pubsub.rs:109-120): the closed senders are
\* removed, and the guard is dropped on return (pubsub.rs:82)
BusSendEnd(t) ==
    /\ bus.pc[t] = "send"
    /\ bus.i[t] >= Len(topics[bus_topic])
    /\ topics' = [topics EXCEPT ![bus_topic] = prune(@, closed_channels(Hub, @, 0))]
    /\ lock' = ""
    /\ bus' = [bus EXCEPT !.pc[t] = "idle", !.sent[t] = @ + 1]
    /\ UNCHANGED <<sessionVars, chans, held, npub, pending, ncalls, bouncerVars, renderVars, hlVars,
                   followed, threads, storeVars, structural, frame>>

\* HubInternal::get_receiver (pubsub.rs:122-128) and the guard's drop
BusRegister ==
    /\ bus.pc[BusRegistrar] = "get_receiver"
    /\ LET H == get_receiver(Hub, bus_topic)
       IN  /\ topics' = H.topics
           /\ chans' = H.chans
           /\ held' = Append(held, None)
    /\ lock' = ""
    /\ bus' = [bus EXCEPT !.pc[BusRegistrar] = "idle", !.registered = @ + 1]
    /\ UNCHANGED <<sessionVars, npub, pending, ncalls, bouncerVars, renderVars, hlVars,
                   followed, threads, storeVars, structural, frame>>

NextBus ==
    \/ \E t \in BusThreads : BusCall(t)
    \/ \E t \in BusThreads : BusLock(t)
    \/ \E t \in BusPublishers : BusSendOne(t)
    \/ \E t \in BusPublishers : BusSendEnd(t)
    \/ BusRegister

SpecBus == InitBus /\ [][NextBus]_vars

\* ------------------------------------------- the display thread's loop
\* The loop of the display thread (terminal.rs:86-123) with its Bouncer and
\* the clock: the snapshots come from the session and from the highlighter.
FrameTick == millis(5)

\* What the user does in this specification
FrameCommands == {<<"ShiftMode", "Insert">>, <<"InsertAtCursor", "w">>}

InitFrame == InitRender

\* Time passes. Beyond the horizon the clock is followed only while a deadline
\* is armed and not yet reached.
TickFrame ==
    /\ now < FrameHorizon * FrameTick \/ (is_some(deadline) /\ ~expired)
    /\ now' = now + FrameTick
    /\ UNCHANGED <<sessionVars, hubVars, threadVars, hlVars, renderVars,
                   start_time, deadline, millis_budget, hot_deadline_proximity, followed, threads, storeVars, structural, frame, bus>>

\* The session handles a command
FrameDispatch(c) ==
    /\ frame.received + Len(chans[state_receiver].queue) < MaxFrames
    /\ HlDispatch(c)

\* The top of the loop with the deadline reached (terminal.rs:87-93):
\* display.update(&last_state), clear, and the select waits without timeout
FramePass ==
    /\ frame.pc = "top"
    /\ expired
    /\ display' = [update(display, last_state, heap) EXCEPT !.marked = FALSE]
    /\ deadline' = None
    /\ frame' = [frame EXCEPT !.pc = "select", !.timeout = None, !.painted = frame.received]
    /\ UNCHANGED <<sessionVars, hubVars, threadVars, hlVars, last_state,
                   now, start_time, millis_budget, hot_deadline_proximity, followed, threads, storeVars, structural, bus>>

\* The top of the loop otherwise (terminal.rs:87, 93, 121): the select waits
\* for after(duration_until_deadline), or never() when no deadline is armed
FrameWait ==
    /\ frame.pc = "top"
    /\ ~expired
    /\ frame' = [frame EXCEPT !.pc = "select",
                              !.timeout = IF is_some(duration_until_deadline)
                                          THEN Some(now + unwrap(duration_until_deadline))
                                          ELSE None]
    /\ UNCHANGED <<sessionVars, hubVars, threadVars, hlVars, renderVars, bouncerVars,
                   followed, threads, storeVars, structural, bus>>

\* recv(state_receiver) in the select (terminal.rs:100-109)
FrameRecvState ==
    /\ frame.pc = "select"
    /\ chans[state_receiver].queue # <<>>
    /\ last_state' = [last_state EXCEPT
                         !.editor_state = Some(Head(chans[state_receiver].queue))]
    /\ chans' = [chans EXCEPT ![state_receiver].queue = Tail(@)]
    /\ deadline' = mark
    /\ display' = [display EXCEPT !.marked = TRUE]
    /\ frame' = [frame EXCEPT !.pc = "top", !.received = @ + 1]
    /\ UNCHANGED <<sessionVars, topics, held, npub, threadVars, hlVars,
                   now, start_time, millis_budget, hot_deadline_proximity, followed, threads, storeVars, structural, bus>>

\* recv(highlight_receiver) in the select (terminal.rs:110-120)
FrameRecvHighlight ==
    /\ frame.pc = "select"
    /\ chans[highlight_receiver].queue # <<>>
    /\ last_state' = [last_state EXCEPT
                         !.highlighter_state = Some(Head(chans[highlight_receiver].queue))]
    /\ chans' = [chans EXCEPT ![highlight_receiver].queue = Tail(@)]
    /\ deadline' = mark
    /\ display' = [display EXCEPT !.marked = TRUE]
    /\ frame' = [frame EXCEPT !.pc = "top", !.received = @ + 1]
    /\ UNCHANGED <<sessionVars, topics, held, npub, threadVars, hlVars,
                   now, start_time, millis_budget, hot_deadline_proximity, followed, threads, storeVars, structural, bus>>

\* recv(after(d)) in the select (terminal.rs:121): the timeout is reached
FrameTimeout ==
    /\ frame.pc = "select"
    /\ is_some(frame.timeout)
    /\ now >= unwrap(frame.timeout)
    /\ frame' = [frame EXCEPT !.pc = "top"]
    /\ UNCHANGED <<sessionVars, hubVars, threadVars, hlVars, renderVars, bouncerVars,
                   followed, threads, storeVars, structural, bus>>

\* a step of the display thread
FrameStep ==
    \/ FramePass
    \/ FrameWait
    \/ FrameRecvState
    \/ FrameRecvHighlight
    \/ FrameTimeout

\* a step of the highlighter's threads
HighlighterStep == Coalesce \/ WorkerWait \/ WorkerTake \/ PassEnd

NextFrame ==
    \/ \E c \in FrameCommands : FrameDispatch(c)
    \/ TickFrame
    \/ HighlighterStep
    \/ FrameStep

\* The display thread can take a step: it is at the top of its loop, or one
\* of the operations of its select is ready. FrameStep is enabled exactly
\* then, and every FrameStep changes the state.
FrameReady ==
    \/ frame.pc = "top"
    \/ /\ frame.pc = "select"
       /\ \/ chans[state_receiver].queue # <<>>
          \/ chans[highlight_receiver].queue # <<>>
          \/ (is_some(frame.timeout) /\ now >= unwrap(frame.timeout))

\* Weak fairness of FrameStep, with its enabling condition written out
FrameFair == []<>(~FrameReady) \/ []<><<FrameStep>>_vars

\* Time passes, and the display thread and the highlighter's threads are
\* scheduled. Nothing is assumed of the user.
SpecFrame ==
    /\ InitFrame
    /\ [][NextFrame]_vars
    /\ WF_vars(TickFrame)
    /\ WF_vars(Coalesce) /\ WF_vars(WorkerTake)
    /\ FrameFair

\* ------------------------------------------------- a session from nothing
\* Script is the end-to-end scenario: type "ab", a newline and "c", delete
\* twice, then quit from the command line.
Script ==
    <<<<"ShiftMode", "Insert">>,
      <<"InsertAtCursor", "a">>, <<"InsertAtCursor", "b">>,
      <<"InsertAtCursor", NL>>, <<"InsertAtCursor", "c">>,
      <<"DeleteAtCursor">>, <<"DeleteAtCursor">>,
      <<"ShiftMode", "Command">>, <<"InsertAtCursor", "q">>,
      <<"CommitCommandline">>>>

\* State::empty(), nobody listening
InitScript ==
    /\ InitWith(empty, deliver(Hub_new, empty.out))
    /\ InitClock

\* The user types the text of Script: the character that text has where the
\* cursor is, a newline where it has none.
typing ==
    CASE cursor_pos = [line_number |-> 0, colmun |-> 0] -> "a"
      [] cursor_pos = [line_number |-> 0, colmun |-> 1] -> "b"
      [] cursor_pos = [line_number |-> 1, colmun |-> 0] -> "c"
      [] OTHER -> NL

\* What the user may do: the commands of Script, typing the text into the
\* buffer and "q" into the command line.
ScriptCommands ==
    {<<"ShiftMode", "Insert">>, <<"ShiftMode", "Command">>,
     <<"DeleteAtCursor">>, <<"CommitCommandline">>,
     <<"InsertAtCursor", IF mode = "Command" THEN "q" ELSE typing>>}

ScriptDispatch(c) ==
    /\ running
    /\ LET W == dispatch(World, c, "ok")
           H == deliver(Hub, W.out)
       IN  /\ SessionStep(W)
           /\ topics' = H.topics
           /\ chans' = H.chans
           /\ npub' = H.npub
    /\ followed' = IF followed >= 0 /\ followed < Len(Script) /\ c = Script[followed + 1]
                   THEN followed + 1 ELSE -1
    /\ UNCHANGED <<held, threadVars, bouncerVars, renderVars, hlVars, threads, storeVars, structural, frame, bus>>

NextScript ==
    /\ text.rev <= MaxScriptRev
    /\ \E c \in ScriptCommands :
           /\ (c[1] = "InsertAtCursor" /\ mode = "Command") => Len(command_line) < MaxCmdLen
           /\ ScriptDispatch(c)

SpecScript == InitScript /\ [][NextScript]_vars

\* ------------------------------------------------- saving the file
\* The files the session is opened on; one has a carriage return inside a line.
StoreFiles == {<<>>, <<NL>>, <<"w", NL, NL>>, <<"w", CR, "q", NL>>}

InitStore ==
    /\ \E bytes \in StoreFiles :
           LET W == from_file(bytes) IN InitWith(W, deliver(Hub_new, W.out))
    /\ InitClock

\* What the user may do: move the cursor, edit, and save with ":w".
StoreCommands ==
    {<<"ShiftMode", "Insert">>, <<"ShiftMode", "Command">>,
     <<"DeleteAtCursor">>, <<"CommitCommandline">>,
     <<"MoveCursor", 1, 0>>, <<"MoveCursor", 0, 1>>}
    \cup {<<"InsertAtCursor", c>> : c \in IF mode = "Command" THEN {"w"} ELSE {"w", NL}}

NextStore ==
    /\ text.rev < MaxStoreRev
    /\ \E c \in StoreCommands :
           /\ (c[1] = "InsertAtCursor" /\ mode = "Command") => Len(command_line) < MaxCmdLen
           /\ Dispatch(c, "ok")

SpecStore == InitStore /\ [][NextStore]_vars

\* Saving when the operating system may fail any call of State::write.
NextStoreFailing ==
    /\ text.rev < MaxStoreRev
    /\ \E c \in StoreCommands, io \in IoOutcomes :
           /\ (c[1] = "InsertAtCursor" /\ mode = "Command") => Len(command_line) < MaxCmdLen
           /\ (c # <<"CommitCommandline">>) => io = "ok"
           /\ Dispatch(c, io)

SpecStoreFailing == InitStore /\ [][NextStoreFailing]_vars

\* ------------------------------------------------- the threads and their ends
\* The receivers in the order the threads ask for them: the highlighter's
\* text_receiver (highlight.rs:86), the core's inputs and syntax_updates
\* (editor.rs:21-22), the display's three (terminal.rs:68-71).
ThreadRegistrations ==
    <<text_update_topic, input_topic, highlight_topic,
      state_update_topic, highlight_topic, shutdown_event_topic>>

InitThreads ==
    /\ LET W == from_file(<<"w", NL>>)
       IN  InitWith(W, deliver(register_all(Hub_new, ThreadRegistrations), W.out))
    /\ InitClock

channels_of(topic) == {ch \in DOMAIN chans : chans[ch].topic = topic}
min_of(S) == CHOOSE x \in S : \A y \in S : x <= y
max_of(S) == CHOOSE x \in S : \A y \in S : x >= y
inputs == min_of(channels_of(input_topic))
syntax_updates == min_of(channels_of(highlight_topic))
display_highlights == max_of(channels_of(highlight_topic))
display_states == min_of(channels_of(state_update_topic))
shutdown_receiver == min_of(channels_of(shutdown_event_topic))

\* recv on a channel gives Err once the channel is empty and every Sender is
\* gone; the Senders are in the HubInternal, which lives while a Hub does
disconnected(ch) == chans[ch].queue = <<>> /\ threads.hubs = {}

\* the Receivers in chs are dropped
drop_receivers(H, chs) ==
    [H EXCEPT !.chans = [ch \in DOMAIN @ |->
                            IF ch \in chs THEN [@[ch] EXCEPT !.live = FALSE] ELSE @[ch]]]

\* The keys the user presses, and what the file system does on a save.
Keys == {":", "q", "w", NL}
CoreIo == {"ok", "seek_err"}

\* The input thread passes one event on (editor.rs:33-39, terminal.rs:53-60);
\* when nobody listens it ends.
InputEvent(k) ==
    /\ threads.input = "running"
    /\ threads.events < MaxEvents
    /\ chans[inputs].queue = <<>>
    /\ LET H == hub_send(Hub, input_topic, k)
           ok == hub_send_ok(Hub, input_topic, k)
       IN  /\ topics' = H.topics
           /\ chans' = H.chans
           /\ npub' = H.npub
           /\ threads' = [threads EXCEPT !.events = @ + 1,
                                         !.input = IF ok THEN @ ELSE "exited",
                                         !.hubs = IF ok THEN @ ELSE @ \ {"input"}]
    /\ UNCHANGED <<sessionVars, held, threadVars, bouncerVars, renderVars, hlVars, followed, storeVars, structural, frame, bus>>

\* The input stream breaks: TerminalInput::next panics in the input thread
\* (terminal.rs:311-318), whose clone of the Hub is dropped.
InputBreaks ==
    /\ threads.input = "running"
    /\ threads' = [threads EXCEPT !.input = "panicked", !.hubs = @ \ {"input"}]
    /\ UNCHANGED <<sessionVars, hubVars, threadVars, bouncerVars, renderVars, hlVars, followed, storeVars, structural, frame, bus>>

\* The core thread ends: its Receivers and its State, with the State's clone
\* of the Hub, are dropped. The shutdown topic is published as the
\* specification has it: once, when the session thread exits.
core_exit(H) ==
    hub_send(drop_receivers(H, {inputs, syntax_updates}), shutdown_event_topic, "()")

\* recv(inputs) in the core thread's select (editor.rs:58-71): an event is
\* mapped and dispatched, and Quit ends the loop; a closed channel ends it too.
CoreInput ==
    /\ running
    /\ chans[inputs].queue # <<>> \/ disconnected(inputs)
    /\ IF chans[inputs].queue # <<>>
       THEN LET command == input_map(mode, Head(chans[inputs].queue))
                H0 == [Hub EXCEPT !.chans[inputs].queue = Tail(@)]
            IN  \E io \in CoreIo :
                    LET W == IF is_some(command) THEN dispatch(World, unwrap(command), io)
                             ELSE World
                        H1 == deliver(H0, W.out)
                        ends == W.action = "Quit" \/ W.panic # ""
                        H == IF ends THEN core_exit(H1) ELSE H1
                    IN  /\ SessionStep(W)
                        /\ topics' = H.topics
                        /\ chans' = H.chans
                        /\ npub' = H.npub
                        /\ threads' = IF ends THEN [threads EXCEPT !.hubs = @ \ {"core"}]
                                      ELSE threads
                        /\ burst' = IF worker.pc = "pass" THEN burst \o text_revs(W.out)
                                    ELSE burst
       ELSE LET H == core_exit(Hub)
            IN  /\ running' = FALSE
                /\ topics' = H.topics
                /\ chans' = H.chans
                /\ npub' = H.npub
                /\ threads' = [threads EXCEPT !.hubs = @ \ {"core"}]
                /\ UNCHANGED <<text, heap, cursor_pos, status_text, mode, command_line,
                               file, panicked, ever_ids, burst>>
    /\ UNCHANGED <<held, threadVars, bouncerVars, renderVars, latest_state, worker,
                   superseded, followed, storeVars, structural, frame, bus>>

\* recv(syntax_updates) in the core thread's select (editor.rs:72-79)
CoreSyntax ==
    /\ running
    /\ RecvHighlight(syntax_updates)

\* The highlight-coalescer thread: for state in text_receiver
\* (highlight.rs:93-100); the loop ends when the channel is closed.
CoalescerTurn ==
    /\ threads.coalescer = "running"
    /\ IF chans[text_receiver].queue # <<>>
       THEN Coalesce
       ELSE /\ disconnected(text_receiver)
            /\ threads' = [threads EXCEPT !.coalescer = "exited"]
            /\ UNCHANGED <<sessionVars, hubVars, threadVars, bouncerVars, renderVars,
                           hlVars, followed, storeVars, structural, frame, bus>>

\* what the display thread does with a message on shutdown_receiver: break
\* (terminal.rs:96-99)
on_shutdown_ignored(status) == status
on_shutdown(status) == "exited"

\* The display thread's select (terminal.rs:95-122). The painting of
\* display.update is left out here.
DisplayRecv ==
    /\ threads.display = "running"
    /\ \/ /\ chans[shutdown_receiver].queue # <<>>
          /\ LET status == on_shutdown(threads.display)
                 H0 == [Hub EXCEPT !.chans[shutdown_receiver].queue = Tail(@)]
                 H == IF status = "exited"
                      THEN drop_receivers(H0, {display_states, display_highlights,
                                               shutdown_receiver})
                      ELSE H0
             IN  /\ chans' = H.chans
                 /\ threads' = [threads EXCEPT
                                   !.display = status,
                                   !.hubs = IF status = "exited" THEN @ \ {"display"} ELSE @]
          /\ UNCHANGED <<last_state, display>>
       \/ /\ chans[display_states].queue # <<>>
          /\ last_state' = [last_state EXCEPT
                               !.editor_state = Some(Head(chans[display_states].queue))]
          /\ chans' = [chans EXCEPT ![display_states].queue = Tail(@)]
          /\ display' = [display EXCEPT !.marked = TRUE]
          /\ UNCHANGED threads
       \/ /\ chans[display_highlights].queue # <<>>
          /\ last_state' = [last_state EXCEPT
                               !.highlighter_state =
                                   Some(Head(chans[display_highlights].queue))]
          /\ chans' = [chans EXCEPT ![display_highlights].queue = Tail(@)]
          /\ display' = [display EXCEPT !.marked = TRUE]
          /\ UNCHANGED threads
    /\ UNCHANGED <<sessionVars, topics, held, npub, threadVars, bouncerVars, hlVars, followed, storeVars, structural, frame, bus>>

\* a step of a thread other than the core thread's recv(inputs)
BackgroundStep ==
    \/ CoreSyntax
    \/ CoalescerTurn
    \/ WorkerWait
    \/ WorkerTake
    \/ PassEnd
    \/ DisplayRecv

\* a step of a thread that has something to do
ThreadsStep ==
    \/ CoreInput
    \/ BackgroundStep

NextThreads ==
    \/ \E k \in Keys : InputEvent(k)
    \/ InputBreaks
    \/ ThreadsStep

\* recv(inputs) is ready in the core thread's select (editor.rs:58, 67): a
\* message waits or the channel is closed. CoreInput is enabled exactly then,
\* and every CoreInput step changes the state.
CoreInputReady == running /\ (chans[inputs].queue # <<>> \/ disconnected(inputs))

\* Weak fairness of CoreInput, with its enabling condition written out
CoreInputFair == []<>(~CoreInputReady) \/ []<><<CoreInput>>_vars

\* While a thread can take a step, one is taken: the input being finite, the
\* threads run until none has anything to do. The user need not type.
SpecThreads ==
    InitThreads /\ [][NextThreads]_vars /\ WF_vars(BackgroundStep) /\ CoreInputFair

\* ------------------------------------------------------ the typed store
\* The types values are stored under, and the values set
TypeIds == {"u8", "u64"}
StoredValues == {12, 13}

\* the handles on the store: the store itself (1) and its clones
Handles == 1..typedstore.handles

\* AHashMap::insert: the entry of the key, when there is one, is replaced
ahash_insert_beside(values, key, val) == values \cup {[key |-> key, val |-> val]}
ahash_insert(values, key, val) ==
    {e \in values : e.key # key} \cup {[key |-> key, val |-> val]}

\* AHashMap::get
ahash_get(values, key) ==
    IF \E e \in values : e.key = key
    THEN Some((CHOOSE e \in values : e.key = key).val)
    ELSE None

\* TypedStoreInternal::set (lib.rs:38-42): the value goes in as a
\* dyn Any of its type, under the TypeId of that type
internal_set(internal, T, val) ==
    [internal EXCEPT !.values = ahash_insert(@, T, [type |-> T, val |-> val])]

\* TypedStoreInternal::get_by_id (lib.rs:49-54): the value under the key,
\* downcast to T; the downcast of a value of another type panics
get_by_id(internal, T, key) ==
    LET any == ahash_get(internal.values, key)
    IN  IF ~is_some(any) THEN None
        ELSE IF unwrap(any).type = T THEN Some(unwrap(any).val)
        ELSE "Internal error; type doesn't match TypeId::of::<type>()"

\* TypedStoreInternal::get (lib.rs:44-47)
internal_get(internal, T) == get_by_id(internal, T, T)

\* TypedStore::set and TypedStore::get (lib.rs:26-34) through any handle:
\* every clone holds the same Arc<Mutex<TypedStoreInternal>>
TypedStore_set(ts, T, val) == internal_set(ts, T, val)
TypedStore_get(ts, T) == internal_get(ts, T)

InitTyped ==
    /\ InitWith(empty, deliver(Hub_new, empty.out))
    /\ InitClock

\* TypedStore::clone (lib.rs:6): one more handle on the same map
CloneStore ==
    /\ typedstore.handles <= MaxClones
    /\ typedstore' = [typedstore EXCEPT !.handles = @ + 1]
    /\ UNCHANGED <<sessionVars, hubVars, threadVars, bouncerVars, hlVars, renderVars,
                   followed, threads, set_log, structural, frame, bus>>

\* ts.set(val) on the handle h, val being of type T
SetValue(h, T, val) ==
    /\ Len(set_log) < MaxSets
    /\ typedstore' = TypedStore_set(typedstore, T, val)
    /\ set_log' = Append(set_log, [handle |-> h, type |-> T, val |-> val])
    /\ UNCHANGED <<sessionVars, hubVars, threadVars, bouncerVars, hlVars, renderVars,
                   followed, threads, structural, frame, bus>>

NextTyped ==
    \/ CloneStore
    \/ \E h \in Handles, T \in TypeIds, val \in StoredValues : SetValue(h, T, val)

SpecTyped == InitTyped /\ [][NextTyped]_vars

\* ------------------------------------------------------ the Text on its own
\* The operations of Text called one by one, as its tests call them
\* (text.rs:375-470), a snapshot being taken between any two.
\* the strings lines are inserted from, and the characters split off a line
LineStrings == {<<"w">>}
LineChars == {<<>>, <<"q">>}

InitText ==
    /\ InitWith(empty, deliver(Hub_new, empty.out))
    /\ InitClock

\* what a Text operation leaves of the program's state alone
TextFrame ==
    UNCHANGED <<cursor_pos, status_text, mode, command_line, file, running, panicked,
                ever_ids, hubVars, threadVars, bouncerVars, hlVars, renderVars,
                followed, threads, storeVars, frame, bus>>

\* t.insert_line(k, s)
InsertLine(k, s) ==
    /\ text.rev < MaxTextRev
    /\ k <= Len(text.lines)
    /\ LET W == insert_line(World, k, s)
       IN  /\ text' = W.text
           /\ heap' = W.heap
           /\ structural' = structural \cup {[index |-> k, rev |-> W.text.rev]}
    /\ TextFrame

\* t.insert_line_from_chars(k, chars)
InsertLineFromChars(k, chars) ==
    /\ text.rev < MaxTextRev
    /\ k <= Len(text.lines)
    /\ LET W == insert_line_from_chars(World, k, chars)
       IN  /\ text' = W.text
           /\ heap' = W.heap
           /\ structural' = structural \cup {[index |-> k, rev |-> W.text.rev]}
    /\ TextFrame

\* t.remove_line(k) on a line there is
RemoveLine(k) ==
    /\ text.rev < MaxTextRev
    /\ k < Len(text.lines)
    /\ LET W == remove_line(World, k)
       IN  /\ text' = W.text
           /\ heap' = W.heap
           /\ structural' = structural \cup {[index |-> k, rev |-> W.text.rev]}
    /\ TextFrame

\* t.line_mut(k).insert(0, c): a change of content, not of structure
EditLine(k) ==
    /\ text.rev < MaxTextRev
    /\ k < Len(text.lines)
    /\ LET W == line_insert(line_mut(World, k), k, 0, "w")
       IN  /\ text' = W.text
           /\ heap' = W.heap
    /\ UNCHANGED structural
    /\ TextFrame

NextText ==
    \E k \in 0..MaxTextRev :
        \/ \E s \in LineStrings : InsertLine(k, s)
        \/ \E chars \in LineChars : InsertLineFromChars(k, chars)
        \/ RemoveLine(k)
        \/ EditLine(k)

SpecText == InitText /\ [][NextText]_vars

\* ------------------------------------------------- the bouncer on its own
\* The periods and grace periods the bouncer is built with (lib.rs:41-42,
\* 113-115, 133-140 and the 10 ms / 1 ms of the frame pacing example).
Periods == {0, millis(10)}
Graces == {None, Some(millis(1)), Some(millis(10) - 1000)}

InitBouncer ==
    /\ InitWith(empty, Hub_new)
    /\ now = 0
    /\ \E p \in Periods, g \in Graces : build(p, g)

\* Half a millisecond passes
Tick ==
    /\ now < MaxTicks * 500000
    /\ now' = now + 500000
    /\ UNCHANGED <<sessionVars, hubVars, threadVars, hlVars, renderVars,
                   start_time, deadline, millis_budget, hot_deadline_proximity, followed, threads, storeVars, structural, frame, bus>>

\* Bouncer::mark
Mark ==
    /\ deadline' = mark
    /\ UNCHANGED <<sessionVars, hubVars, threadVars, hlVars, renderVars,
                   now, start_time, millis_budget, hot_deadline_proximity, followed, threads, storeVars, structural, frame, bus>>

\* Bouncer::clear, at any time (lib.rs:166; terminal.rs:90 after a render)
Clear ==
    /\ deadline' = None
    /\ UNCHANGED <<sessionVars, hubVars, threadVars, hlVars, renderVars,
                   now, start_time, millis_budget, hot_deadline_proximity, followed, threads, storeVars, structural, frame, bus>>

NextBouncer == Tick \/ Mark \/ Clear

SpecBouncer == InitBouncer /\ [][NextBouncer]_vars

\* ------------------------------------------------------------------ claims
AllCommands == CommandsTyping(Chars)
CursorLineExists == cursor_pos.line_number < Len(text.lines)

\* The buffer mutations of the session, by the command and the state it is
\* dispatched in.
IsInsertChar(c) == mode = "Insert" /\ c[1] = "InsertAtCursor" /\ c[2] # NL
IsSplit(c) == mode = "Insert" /\ c = <<"InsertAtCursor", NL>>
IsDeleteChar(c) == mode = "Insert" /\ c = <<"DeleteAtCursor">> /\ cursor_pos.colmun > 0
IsJoin(c) ==
    /\ mode = "Insert" /\ c = <<"DeleteAtCursor">>
    /\ cursor_pos.colmun = 0 /\ cursor_pos.line_number > 0
IsRemoveOnlyLine(c) ==
    /\ mode = "Insert" /\ c = <<"DeleteAtCursor">>
    /\ cursor_pos = [line_number |-> 0, colmun |-> 0]
    /\ Len(text.lines) = 1 /\ text.lines[1].content = <<>>
IsBufferMutation(c) ==
    IsInsertChar(c) \/ IsSplit(c) \/ IsDeleteChar(c) \/ IsJoin(c) \/ IsRemoveOnlyLine(c)

Contents(t) == [i \in 1..Len(t.lines) |-> t.lines[i].content]
Ids(t) == [i \in 1..Len(t.lines) |-> t.lines[i].id]

\* C1: every buffer mutation made by a dispatched command (insert-char,
\* delete-char, split, join, remove-line, the insert-line of a split) leaves
\* the global Revision strictly greater than before, no step changes the
\* lines without raising the Revision, and MoveCursor, for any displacement
\* and in any mode, leaves the Revision unchanged.
C1_RevisionBumps ==
    [][/\ text'.lines # text.lines => text'.rev > text.rev
       /\ \A c \in AllCommands :
              (IsBufferMutation(c) /\ Dispatch(c, "ok")) => text'.rev > text.rev
       /\ \A c \in AllCommands :
              (c[1] = "MoveCursor" /\ Dispatch(c, "ok")) => text'.rev = text.rev]_vars

\* C1 witness: the buffer has been mutated, and the session is in Normal mode
\* with the cursor moved off the origin.
C1_Witness ==
    /\ text.rev >= 2
    /\ mode = "Normal"
    /\ cursor_pos.line_number > 0 /\ cursor_pos.colmun > 0

NoDuplicates(ids) == \A i, j \in DOMAIN ids : ids[i] = ids[j] => i = j

Range(f) == {f[i] : i \in DOMAIN f}
\* the elements of seq that are in set, in their order
Only(seq, set) == SelectSeq(seq, LAMBDA x : x \in set)

\* C2: across every dispatched command the lines that stay keep their
\* LineIdentity and their order, identities are never shared, the line split
\* keeps its identity at its index and the previous line of a join keeps its
\* own while the joined line's leaves, edits within a line change no
\* identity, and a new line's identity was never carried by any line,
\* present or removed.
C2_LineIdentityStable ==
    [][\A c \in AllCommands :
          Dispatch(c, "ok") =>
              LET old == Ids(text)
                  new == Ids(text')
              IN  /\ NoDuplicates(new)
                  /\ Only(old, Range(new)) = Only(new, Range(old))
                  /\ \A id \in Range(new) \ Range(old) : id \notin ever_ids
                  /\ Contents(text') = Contents(text) => new = old
                  /\ (IsSplit(c) /\ CursorLineExists) =>
                         /\ new[cursor_pos.line_number + 2] \notin ever_ids
                         /\ new = vec_insert(old, cursor_pos.line_number + 1,
                                             new[cursor_pos.line_number + 2])
                  /\ IsJoin(c) => new = vec_remove(old, cursor_pos.line_number)
                  /\ (IsInsertChar(c) /\ CursorLineExists) => new = old
                  /\ IsDeleteChar(c) => new = old]_vars

\* C2 witness: the only line of the buffer was created after an earlier line
\* had been removed.
C2_Witness ==
    /\ Len(text.lines) >= 1
    /\ \E id \in ever_ids :
           /\ \A i \in 1..Len(text.lines) : text.lines[i].id # id
           /\ \E i \in 1..Len(text.lines) : text.lines[i].id > id

\* C3: in the snapshot Text::view builds in any reachable state,
\* max-revision-before is non-decreasing in the line index and no line's own
\* revision exceeds its max-revision-before.
C3_MaxRevBeforeMonotone ==
    LET lv == view(World).lines
    IN  /\ \A i, j \in 1..Len(lv) : i <= j => lv[i].max_rev_before <= lv[j].max_rev_before
        /\ \A i \in 1..Len(lv) : lv[i].line_rev <= lv[i].max_rev_before

\* C3 witness: a line edited later stands before a line edited earlier.
C3_Witness ==
    \E i, j \in 1..Len(text.lines) :
        i < j /\ text.lines[i].rev > text.lines[j].rev /\ text.lines[j].rev > 0

\* The TextView a published value carries
TextViewOf(ch, value) == IF chans[ch].topic = text_update_topic THEN value ELSE value.text

\* What a TextView reports, given the heap: per line its content, identity,
\* own revision and max-revision-before
Report(tv, h) ==
    [i \in 1..Len(tv.lines) |->
        [content |-> h[tv.lines[i].content_string], id |-> tv.lines[i].line_id,
         rev |-> tv.lines[i].line_rev, max_rev_before |-> tv.lines[i].max_rev_before]]

\* Every snapshot a subscriber holds or has waiting in its channel
Retained ==
    {TextViewOf(ch, held[ch][1]) : ch \in {x \in DOMAIN held : held[x] # None}}
    \cup UNION {{TextViewOf(ch, chans[ch].queue[i]) : i \in 1..Len(chans[ch].queue)} :
                   ch \in DOMAIN chans}

\* C4: no step changes what a TextSnapshot taken earlier reports: line
\* count and, per line, content, identity, own revision and
\* max-revision-before.
C4_SnapshotImmutable ==
    [][\A tv \in Retained : Report(tv, heap') = Report(tv, heap)]_vars

\* C4 witness: a subscriber holds a snapshot of a line whose content in the
\* buffer has changed since, two revisions ago or more.
C4_Witness ==
    \E ch \in DOMAIN held :
        /\ held[ch] # None
        /\ LET tv == TextViewOf(ch, held[ch][1])
           IN  /\ tv.rev + 2 <= text.rev
               /\ \E i \in 1..Len(tv.lines) : \E j \in 1..Len(text.lines) :
                      /\ tv.lines[i].line_id = text.lines[j].id
                      /\ heap[tv.lines[i].content_string] # text.lines[j].content

\* C5: between commands the cursor is on a line of the buffer (line 0 if the
\* buffer is empty) at a column no greater than that line's length, and the
\* session has not died of one of its cursor assertions.
C5_CursorInBounds ==
    /\ Len(text.lines) = 0 => cursor_pos.line_number = 0
    /\ Len(text.lines) > 0 =>
           /\ cursor_pos.line_number < Len(text.lines)
           /\ cursor_pos.colmun <= Len(text.lines[cursor_pos.line_number + 1].content)
    /\ panicked \notin {"assertion failed: cur_col <= l.char_count()",
                        "assertion failed: line_number <= line_count",
                        "assertion failed: colmun <= line.char_count()",
                        "insertion index out of bounds",
                        "removal index out of bounds",
                        "split_off at > len"}

\* C5 witness: after edits, the cursor is at the end of the last line of a
\* buffer of several lines.
C5_Witness ==
    /\ text.rev > 0
    /\ Len(text.lines) >= 2
    /\ cursor_pos.line_number = Len(text.lines) - 1
    /\ cursor_pos.colmun = Len(text.lines[Len(text.lines)].content)
    /\ cursor_pos.colmun > 0

\* C6: a receiver never yields a value published before it was handed out:
\* everything in a channel, and the last value taken from it, was published
\* after the channel was made.
C6_NoReplay ==
    \A ch \in DOMAIN chans :
        /\ \A i \in 1..Len(chans[ch].queue) : chans[ch].queue[i] > chans[ch].born
        /\ held[ch] # None => held[ch][1] > chans[ch].born

\* C6 witness: a receiver registered on an existing topic after a publish on
\* it has received a value, while an earlier receiver of the topic has
\* received an earlier one.
C6_Witness ==
    \E ch, first \in DOMAIN chans :
        /\ first < ch
        /\ chans[first].topic = chans[ch].topic
        /\ chans[ch].born > 0
        /\ held[ch] # None
        /\ held[first] # None /\ held[first][1] <= chans[ch].born

StrictlyIncreasing(q) == \A i, j \in 1..Len(q) : i < j => q[i] < q[j]

\* C7: a publish on a topic appends exactly one copy of the value to the
\* channel of every live receiver registered on that topic and leaves every
\* other channel (another name, another payload type, a dropped receiver) as
\* it was; a receiver takes the oldest value of its channel, so each
\* subscriber gets its topic's values in publish order.
C7_FanOut ==
    [][/\ \A topic \in HubTopics :
              Publish(topic) =>
                  \A ch \in DOMAIN chans :
                      chans'[ch].queue =
                          IF chans[ch].topic = topic /\ chans[ch].live
                          THEN Append(chans[ch].queue, npub + 1)
                          ELSE chans[ch].queue
       /\ \A ch \in DOMAIN chans :
              Recv(ch) => held'[ch] = Some(Head(chans[ch].queue))
       /\ \A ch \in DOMAIN chans' :
              /\ StrictlyIncreasing(chans'[ch].queue)
              /\ (held'[ch] # None /\ chans'[ch].queue # <<>>) =>
                     held'[ch][1] < chans'[ch].queue[1]]_vars

\* C7 witness: two live subscribers of one topic have the same two values
\* waiting, in publish order.
C7_Witness ==
    \E a, b \in DOMAIN chans :
        /\ a # b
        /\ chans[a].topic = chans[b].topic
        /\ chans[a].live /\ chans[b].live
        /\ Len(chans[a].queue) >= 2
        /\ chans[a].queue = chans[b].queue

LiveSubscribers(topic) ==
    {ch \in DOMAIN chans : chans[ch].topic = topic /\ chans[ch].live}

\* C8: a publish returns Ok exactly when a receiver registered on the topic
\* is still live; otherwise (never subscribed, or every receiver dropped) it
\* returns Err, no channel changes, no other topic changes, and the topic is
\* left with no subscription.
C8_PublishResult ==
    [][\A topic \in HubTopics :
          Publish(topic) =>
              /\ hub_send_ok(Hub, topic, npub + 1) <=> LiveSubscribers(topic) # {}
              /\ ~hub_send_ok(Hub, topic, npub + 1) =>
                     /\ chans' = chans
                     /\ topics'[topic] = <<>>
                     /\ \A t \in DOMAIN topics : t # topic => topics'[t] = topics[t]
                     /\ DOMAIN topics' = DOMAIN topics \cup {topic}]_vars

\* C8 witness: values have been published on a topic whose every receiver,
\* once registered, is dropped, and its subscriptions have been pruned.
C8_Witness ==
    \E topic \in DOMAIN topics :
        /\ topics[topic] = <<>>
        /\ \E ch \in DOMAIN chans : chans[ch].topic = topic /\ ~chans[ch].live
        /\ LiveSubscribers(topic) = {}
        /\ npub >= 2

\* C9: publishing never waits for a subscriber: whatever the subscribers do
\* (receive, never receive, drop their receiver), every dispatch that has
\* values to publish gets all of them published.
C9_PublishCompletes == (pending # <<>>) ~> (pending = <<>>)

\* C9 witness: a dispatch has completed although a live subscriber has two
\* values waiting that it has not received and another subscriber has
\* dropped its receiver.
C9_Witness ==
    /\ pending = <<>>
    /\ text.rev > 0
    /\ \E ch, gone \in DOMAIN chans :
           /\ chans[ch].live /\ Len(chans[ch].queue) >= 2
           /\ ~chans[gone].live

\* C10: built with a period of 10 ms and a grace of 1 ms, a mark 9.5 ms after
\* the start arms the deadline 20 ms after the start, and a mark 5 ms after
\* the start arms the deadline 10 ms after the start.
C10_MarkDeadlines ==
    [][(/\ Mark
        /\ deadline = None
        /\ millis_budget = 10
        /\ hot_deadline_proximity = Some(1)) =>
           /\ now - start_time = 9500000 => deadline' = Some(start_time + millis(20))
           /\ now - start_time = millis(5) => deadline' = Some(start_time + millis(10))]_vars

\* C11: with a zero-length period, every mark leaves the bouncer expired,
\* at whatever time it is called, and the bouncer stays expired as time
\* passes and on further marks, until clear.
C11_ZeroPeriodExpired ==
    [][millis_budget = 0 =>
           /\ Mark => expired'
           /\ (expired /\ deadline' # None) => expired']_vars

\* C11 witness: a zero-period bouncer marked after time had passed is
\* expired, a millisecond or more after the mark.
C11_Witness ==
    /\ millis_budget = 0
    /\ expired
    /\ unwrap(deadline) > start_time
    /\ now >= unwrap(deadline) + millis(1)

\* C12: a mark on an armed bouncer leaves the deadline as it is; expired is
\* true exactly when a deadline is armed and the time is at or past it; clear
\* leaves no deadline armed, and none is armed again before the next mark.
C12_MarkOnlyWhenUnarmed ==
    [][/\ (Mark /\ deadline # None) => deadline' = deadline
       /\ expired <=> (deadline # None /\ now >= deadline[1])
       /\ Clear => deadline' = None
       /\ (deadline = None /\ ~Mark) => deadline' = None]_vars

\* C12 witness: a deadline armed half a millisecond after the start is still
\* armed, not expired, at a time when a fresh mark would arm a later one
\* (the remaining 8 ms are inside the grace period of 9 ms).
C12_Witness ==
    /\ millis_budget = 10
    /\ hot_deadline_proximity = Some(9)
    /\ deadline = Some(start_time + 10500000)
    /\ now = start_time + millis(2)
    /\ ~expired

\* C13: no pass is run over a TextView that was published during an earlier
\* pass together with two others and was not the last of the three: after
\* the pass during which three were published, the highlighter passes over
\* the last of them only.
C13_OnlyLastOfThree ==
    worker.pc = "pass" => unwrap(worker.text).rev \notin superseded

\* the HighlightState published last, None if none was
LastHighlight ==
    LET ch == topics[highlight_topic][1]
    IN  IF chans[ch].queue # <<>> THEN Some(chans[ch].queue[Len(chans[ch].queue)])
        ELSE held[ch]

\* the TextView published last: a view of the buffer as it is, every change
\* of the buffer being published by the command that makes it
LastTextView == Some(view(World))

\* hl has a record for every line of tv, made from the line's content in tv
Covers(hl, tv) ==
    \A i \in 1..Len(tv.lines) :
        LET line == tv.lines[i]
        IN  /\ line.line_id \in DOMAIN hl.highlighted_lines
            /\ hl.highlighted_lines[line.line_id] =
                   [highlighted_text |-> as_24_bit_terminal_escaped(heap[line.content_string]),
                    highlighted_line_rev |-> line.max_rev_before,
                    highlight_rev |->
                        HighlightRev_from(as_24_bit_terminal_escaped(heap[line.content_string]),
                                          line.line_id)]

HighlightsSettled ==
    /\ is_some(LastHighlight) /\ is_some(LastTextView)
    /\ Covers(unwrap(LastHighlight), unwrap(LastTextView))

\* C14: once the session publishes no more TextViews, the highlighter
\* eventually publishes, and from then on the HighlightState published last
\* has, for every line of the TextView published last, a record made from
\* that line's content.
C14_LastSnapshotHighlighted == <>[]HighlightsSettled

\* C14 witness: the highlights cover the last TextView, which replaced an
\* unprocessed one in the slot after the highlighter had begun to wait.
C14_Witness ==
    /\ HighlightsSettled
    /\ worker.pc = "waiting"
    /\ unwrap(LastTextView).rev >= 2
    /\ chans[text_receiver].queue = <<>> /\ latest_state = None
    /\ Len(chans[topics[highlight_topic][1]].queue) = 2

\* ---------------------------------------------------------------- C15
\* C15: when every visible row has the same key (line id, line revision,
\* highlight revision, screen size) in two consecutive render passes, the
\* second pass writes nothing to the text rows, with or without highlights.
C15_NoWritesWhenKeysEqual ==
    (display.passes = 2 /\ display.keys # <<>> /\ display.keys = display.prev_keys)
        => display.writes = <<>>

\* ---------------------------------------------------------------- C16
\* the first line shown by a pass that was given the state st
top_line_of(st) ==
    saturating_sub(unwrap(st.editor_state).cursor_pos.line_number,
                   saturating_sub(terminal_size[2] - 2, 1))
\* the lines whose content differs between two TextViews of the same lines
changed_lines(a, b) ==
    {i \in 1..Len(a.lines) : heap[a.lines[i].content_string] # heap[b.lines[i].content_string]}
\* Between the last two passes one edit changed the content of the line
\* shown at row, and nothing else: the same lines, the same window.
OneLineEdited(row) ==
    /\ display.passes = 2
    /\ is_some(display.prev_seen) /\ is_some(unwrap(display.prev_seen).editor_state)
    /\ LET a == unwrap(unwrap(display.prev_seen).editor_state).text
           b == unwrap(unwrap(display.seen).editor_state).text
       IN  /\ b.rev = a.rev + 1
           /\ [i \in 1..Len(a.lines) |-> a.lines[i].line_id]
                = [i \in 1..Len(b.lines) |-> b.lines[i].line_id]
           /\ top_line_of(unwrap(display.prev_seen)) = top_line_of(unwrap(display.seen))
           /\ changed_lines(a, b) = {row + display.top_line}
\* the rows the last pass repainted
repainted == {display.writes[i].row : i \in {j \in 1..Len(display.writes) :
                                                display.writes[j].kind = "line"}}
\* C16: when one edit (a character typed into or deleted from a line) changed
\* the content of exactly one visible line between two render passes, the
\* second pass repaints exactly the row of that line.
C16_RepaintsTheEditedRow ==
    \A row \in 1..(terminal_size[2] - 2) : OneLineEdited(row) => repainted = {row}

\* ---------------------------------------------------------------- C17
\* the content of every line of the buffer
contents == [i \in 1..Len(text.lines) |-> text.lines[i].content]
\* C17: from an empty buffer in Insert mode, typing 'a', 'b', newline, 'c'
\* gives the lines "ab" and "c" with the cursor at (1,1); two deletes then
\* give the single line "ab" with the cursor at (0,2); entering Command
\* mode, typing 'q' and committing then quits, the document unchanged.
C17_EndToEnd ==
    /\ followed = 5 => /\ contents = <<<<"a", "b">>, <<"c">>>>
                       /\ cursor_pos = [line_number |-> 1, colmun |-> 1]
    /\ followed = 7 => /\ contents = <<<<"a", "b">>>>
                       /\ cursor_pos = [line_number |-> 0, colmun |-> 2]
    /\ followed = 10 => /\ ~running /\ panicked = ""
                        /\ contents = <<<<"a", "b">>>>
                        /\ cursor_pos = [line_number |-> 0, colmun |-> 2]
C17_Witness ==
    followed = 10 /\ ~running /\ text.rev = MaxScriptRev /\ mode = "Normal"

\* ---------------------------------------------------------------- C18
\* the command line "w" is committed and the buffer is written to the file
Saves ==
    /\ mode = "Command" /\ command_line = <<"w">> /\ is_some(file)
    /\ mode' = "Normal" /\ panicked' = ""
\* C18: reading back the file that a save has written gives the buffer:
\* the same number of lines, and the same content on every line.
C18_WriteReadRoundTrip ==
    [][Saves => BufRead_lines(unwrap(file'), <<>>, <<>>)
                    = [i \in 1..Len(text'.lines) |-> text'.lines[i].content]]_vars

\* ---------------------------------------------------------------- C19
\* the values that a command's publishes carry on a topic, in order
RECURSIVE published_on(_, _)
published_on(out, topic) ==
    IF out = <<>> THEN <<>>
    ELSE (IF Head(out).topic = topic THEN <<Head(out).value>> ELSE <<>>)
         \o published_on(Tail(out), topic)
\* the command c, dispatched now, publishes the TextView of the buffer it
\* leaves and, after it, a StateSnapshot
PublishesTextThenState(c) ==
    LET W == dispatch(World, c, "ok")
    IN  \E i, j \in DOMAIN W.out :
            /\ i < j
            /\ W.out[i] = [topic |-> text_update_topic, value |-> view(W)]
            /\ W.out[j].topic = state_update_topic
\* C19: a command that changes the document publishes a TextView of the
\* changed buffer and then a StateSnapshot before the next command is
\* handled; a MoveCursor publishes a StateSnapshot and no TextView.
C19_PublishOrder ==
    running =>
        \A c \in Commands :
            LET W == dispatch(World, c, "ok")
            IN  W.panic = "" =>
                    /\ W.text.lines # text.lines => PublishesTextThenState(c)
                    /\ c[1] = "MoveCursor" =>
                           /\ published_on(W.out, state_update_topic) # <<>>
                           /\ published_on(W.out, text_update_topic) = <<>>

\* ---------------------------------------------------------------- C20
\* C20: whatever a command changes of the cursor, the mode, the command
\* line, the status text or the document, the last StateSnapshot it
\* publishes carries the values the session has when the command is done.
C20_EveryChangePublished ==
    running =>
        \A c \in Commands :
            LET W == dispatch(World, c, "ok")
                snapshots == published_on(W.out, state_update_topic)
            IN  (W.panic = "" /\ StateSnapshot(W) # StateSnapshot(World)) =>
                    /\ snapshots # <<>>
                    /\ snapshots[Len(snapshots)] = StateSnapshot(W)

\* ---------------------------------------------------------------- C21
\* C21: in every mode, ShiftMode(m) sets the mode to m and empties the
\* command line, leaves the document, its Revision and the cursor as they
\* were, and publishes a StateSnapshot with mode m and an empty command line.
C21_ShiftMode ==
    [][\A m \in Modes :
           Dispatch(<<"ShiftMode", m>>, "ok") =>
               /\ mode' = m /\ command_line' = <<>>
               /\ text' = text /\ heap' = heap /\ cursor_pos' = cursor_pos
               /\ running' /\ panicked' = ""
               /\ \E s \in Range(published_on(dispatch(World, <<"ShiftMode", m>>, "ok").out,
                                              state_update_topic)) :
                      /\ s.mode = m /\ s.command_line = <<>>
                      /\ s.text = view(World) /\ s.cursor_pos = cursor_pos]_vars
\* C21 witness: the session left Command mode, where a command line had been
\* typed, for Insert mode, the document edited and the cursor off the origin.
C21_Witness ==
    /\ mode = "Insert" /\ command_line = <<>>
    /\ text.rev >= 1 /\ cursor_pos.colmun > 0

\* ---------------------------------------------------------------- C22
\* C22: in Command mode, CommitCommandline with the command line "q" gives
\* the Quit action and the loop of the session ends: from then on no command
\* is dispatched and the document, like the rest of the session, stays as it is.
C22_QuitStops ==
    [][/\ (mode = "Command" /\ command_line = <<"q">>
           /\ Dispatch(<<"CommitCommandline">>, "ok"))
          => (~running' /\ panicked' = "" /\ text' = text /\ heap' = heap)
       /\ ~running => /\ UNCHANGED sessionVars
                      /\ \A c \in AllCommands : ~Dispatch(c, "ok")]_vars
\* C22 witness: the session has quit, cleanly, after editing the document.
C22_Witness ==
    ~running /\ panicked = "" /\ text.rev >= 1 /\ mode = "Normal" /\ command_line = <<>>

\* ---------------------------------------------------------------- C23
\* the command line "w" is committed while the call io of the write fails
SaveFails(io) ==
    /\ mode = "Command" /\ command_line = <<"w">> /\ is_some(file)
    /\ Dispatch(<<"CommitCommandline">>, io)
\* C23: whichever step of the write fails when "w" is committed, the status
\* text reports the failure, nothing faults, the document, its Revision and
\* the cursor are as before, and the session goes on.
C23_WriteFailureReported ==
    [][\A io \in IoOutcomes \ {"ok"} :
           SaveFails(io) =>
               /\ panicked' = "" /\ running'
               /\ status_text' = <<"Failed to save file">>
               /\ text' = text /\ cursor_pos' = cursor_pos]_vars

\* ---------------------------------------------------------------- C24
\* C24: in Insert mode with the cursor at (0,0), DeleteAtCursor leaves the
\* buffer, its Revision and the cursor as they were, unless the buffer is
\* exactly one empty line: then that line is removed, the buffer is empty and
\* the cursor is at (0,0).
C24_DeleteAtOrigin ==
    [][(/\ mode = "Insert" /\ cursor_pos = [line_number |-> 0, colmun |-> 0]
        /\ Dispatch(<<"DeleteAtCursor">>, "ok"))
       => /\ panicked' = "" /\ cursor_pos' = cursor_pos
          /\ IF Len(text.lines) = 1 /\ text.lines[1].content = <<>>
             THEN text'.lines = <<>>
             ELSE text' = text /\ heap' = heap]_vars
\* C24 witness: the only line, empty, has been removed in Insert mode, after
\* the line had been edited.
C24_Witness ==
    /\ mode = "Insert" /\ text.lines = <<>> /\ text.rev >= 3
    /\ cursor_pos = [line_number |-> 0, colmun |-> 0]

\* ---------------------------------------------------------------- C25
\* the publishes made on the shutdown topic: those waiting in the display
\* thread's channel and the one it has taken
shutdowns_published ==
    Len(chans[shutdown_receiver].queue) + (IF threads.display = "exited" THEN 1 ELSE 0)
C26_HighlighterEnds ==
    (~running) ~> (threads.coalescer = "exited" /\ worker.pc = "exited")

\* ---------------------------------------------------------------- C27
\* C27: when the input stream breaks, the input thread alone fails, and the
\* session thread then finds its input closed and ends.
C27_BrokenInputShutsDown ==
    /\ [][(threads'.input = "panicked" /\ threads.input # "panicked") =>
              UNCHANGED <<sessionVars, hubVars, hlVars, renderVars>>]_vars
    /\ (threads.input = "panicked") ~> ~running

\* the value most recently set for the type T, by the log of the set calls
last_set(log, T) ==
    LET at == {i \in 1..Len(log) : log[i].type = T}
    IN  IF at = {} THEN None ELSE Some(log[max_of(at)].val)

\* C28: after any sequence of set calls on a store and its clones, get for a
\* type returns the value most recently set for that type, through whichever
\* handle, and nothing when none was ever set; the store holds at most one
\* value per type; and a set for one type leaves what get returns for every
\* other type as it was.
C28_TypedStore ==
    /\ [](\A T \in TypeIds : TypedStore_get(typedstore, T) = last_set(set_log, T))
    /\ [](\A e1, e2 \in typedstore.values : e1.key = e2.key => e1 = e2)
    /\ [][\A h \in Handles, T \in TypeIds, val \in StoredValues :
            SetValue(h, T, val) =>
                \A U \in TypeIds \ {T} :
                    TypedStore_get(typedstore, U)' = TypedStore_get(typedstore, U)]_vars

\* a value set through the store, another type set, then the first type set
\* again through a clone: get returns the clone's value
C28_Witness ==
    /\ Len(set_log) = 3
    /\ set_log[1].handle = 1 /\ set_log[1].type = "u8" /\ set_log[1].val = 12
    /\ set_log[2].type = "u64"
    /\ set_log[3].handle = 2 /\ set_log[3].type = "u8" /\ set_log[3].val = 13
    /\ TypedStore_get(typedstore, "u8") = Some(13)
    /\ TypedStore_get(typedstore, "u64") = Some(set_log[2].val)

\* C29: after insert-char or delete-char on an existing line, and after a
\* split on the line that was split, the affected line's own revision is the
\* new global Revision, and so is not the stamp the line had before.
C29_AffectedLineStamped ==
    [][\A c \in AllCommands :
        LET n == cursor_pos.line_number + 1
        IN  (/\ CursorLineExists
             /\ \/ IsInsertChar(c)
                \/ IsSplit(c)
                \/ IsDeleteChar(c)
             /\ Dispatch(c, "ok")
             /\ panicked' = "")
            => /\ text'.lines[n].rev = text'.rev
               /\ text'.lines[n].rev # text.lines[n].rev]_vars

\* C30: after a structural change (insert-line or remove-line) at index k that
\* produced revision r, every line at index k or greater in every snapshot
\* taken afterwards reports a max-revision-before of at least r.
C30_StructuralRevision ==
    LET lv == view(World).lines
    IN  \A s \in structural :
            \A i \in 1..Len(lv) :
                lv[i].line_number >= s.index => lv[i].max_rev_before >= s.rev

\* C31: in Insert mode with the cursor at column 0 of an existing line i > 0,
\* DeleteAtCursor replaces the lines i-1 and i by one line holding the content
\* of line i-1 followed by that of line i; the buffer has one line fewer, the
\* other lines keep their content and order, and the cursor is at line i-1, at
\* the column that was the length of line i-1.
C31_JoinLines ==
    [][(/\ IsJoin(<<"DeleteAtCursor">>)
        /\ CursorLineExists
        /\ Dispatch(<<"DeleteAtCursor">>, "ok"))
       => LET i == cursor_pos.line_number
              C == Contents(text)
          IN  /\ panicked' = ""
              /\ Len(text'.lines) = Len(text.lines) - 1
              /\ Contents(text') =
                     [j \in 1..(Len(C) - 1) |->
                         IF j < i THEN C[j]
                         ELSE IF j = i THEN C[i] \o C[i + 1]
                         ELSE C[j + 1]]
              /\ cursor_pos' = [line_number |-> i - 1, colmun |-> Len(C[i])]]_vars

\* C31 witness: two lines with content have been joined; the cursor stands
\* inside the joined line, where the first of them ended.
C31_Witness ==
    /\ mode = "Insert"
    /\ ever_ids \ {text.lines[i].id : i \in 1..Len(text.lines)} # {}
    /\ \E n \in 1..Len(text.lines) :
           /\ cursor_pos = [line_number |-> n - 1, colmun |-> 1]
           /\ text.lines[n].content = <<"w", "q">>
           /\ text.lines[n].rev = text.rev

\* the commands dispatch has no arm for in the current mode
NotMeaningful(c) ==
    \/ mode = "Normal" /\ c[1] \in {"InsertAtCursor", "DeleteAtCursor", "CommitCommandline"}
    \/ mode \in {"Insert", "Command"} /\ c[1] = "MoveCursor"

\* C32: a command that is not meaningful in the current mode (InsertAtCursor,
\* DeleteAtCursor, CommitCommandline in Normal mode; MoveCursor in Insert and
\* Command mode) changes nothing of the document, Revision, cursor, mode,
\* command line and status text, and publishes nothing; in Command mode
\* InsertAtCursor and DeleteAtCursor change the command line or the mode only,
\* never the document or its Revision.
C32_ModeFrame ==
    [][\A c \in AllCommands :
        Dispatch(c, "ok") =>
            /\ NotMeaningful(c) =>
                   /\ UNCHANGED <<text, heap, cursor_pos, mode, command_line, status_text>>
                   /\ dispatch(World, c, "ok").out = <<>>
                   /\ running' /\ panicked' = ""
            /\ (mode = "Command" /\ c[1] \in {"InsertAtCursor", "DeleteAtCursor"}) =>
                   /\ UNCHANGED <<text, heap, cursor_pos, status_text>>
                   /\ panicked' = ""
                   /\ mode' = "Command" \/ (command_line' = command_line /\ mode' = "Normal")]_vars

\* C32 witness: a character has gone to the command line of a session whose
\* document had been edited; the cursor stands where Normal mode left it.
C32_Witness ==
    /\ mode = "Command" /\ command_line = <<"q">>
    /\ text.rev >= 1 /\ status_text # <<>>
    /\ cursor_pos.line_number > 0

\* the subscriptions of a topic, as the topic lists them
Subscriptions(ts, topic) == IF topic \in DOMAIN ts THEN ts[topic] ELSE <<>>

\* C33: after a publish, the topic's subscription list holds exactly the
\* subscriptions that were on it before the publish and whose receiver was
\* still live, each once: whichever receivers were dropped and wherever they
\* stood in the list, every dropped one is gone and no live one is removed or
\* duplicated.
C33_PruneExact ==
    [][Publish(pruned_topic) =>
        LET before == Subscriptions(topics, pruned_topic)
            after == Subscriptions(topics', pruned_topic)
        IN  /\ Range(after) = {ch \in Range(before) : chans[ch].live}
            /\ \A i, j \in 1..Len(after) : after[i] = after[j] => i = j]_vars

\* C33 witness: of four subscriptions the first and the third were dropped; a
\* publish has pruned them and moved the last one to the front.
C33_Witness ==
    /\ Len(chans) = 4
    /\ ~chans[1].live /\ chans[2].live /\ ~chans[3].live /\ chans[4].live
    /\ Subscriptions(topics, pruned_topic) = <<4, 2>>
    /\ chans[2].queue # <<>> /\ chans[4].queue # <<>>

\* C34: for a non-zero period, every deadline mark arms, measured from the
\* start of the bouncer, is an exact multiple of the period, at whatever time
\* the mark is made and whatever was armed, reached or cleared before.
C34_DeadlineOnBoundary ==
    [][(Mark /\ deadline = None /\ millis_budget # 0) =>
           /\ is_some(deadline')
           /\ (unwrap(deadline') - start_time) % millis(millis_budget) = 0]_vars

C36_PublishedMapPruned ==
    [][PassEnd =>
        LET tv == unwrap(worker.text)
            r == highlight_pass(worker.prev_hl_state, tv, heap)
            completion == r.out[Len(r.out)]
        IN  DOMAIN completion.highlighted_lines
                \subseteq {tv.lines[i].line_id : i \in 1..Len(tv.lines)}]_vars

\* C37: with the display thread and the clock running, whenever the display
\* thread has received a snapshot that no render pass has been given, a pass
\* runs later, and it is given every snapshot received until then; a
\* deadline that a receipt armed is cleared by a pass in the end; and a pass
\* paints the snapshots that were received last (last_state as the receipts
\* left it), changes none of them and clears the deadline.
C37_PassFollowsTrigger ==
    /\ (frame.painted < frame.received) ~> (frame.painted = frame.received)
    /\ is_some(deadline) ~> (deadline = None)
    /\ [][frame'.painted # frame.painted
            => /\ display'.seen = Some(last_state)
               /\ last_state' = last_state
               /\ deadline' = None]_vars

\* A pass has painted every snapshot received, a typed character and its
\* highlighting among them, and no deadline is armed
C37_Witness ==
    /\ text.rev = 1
    /\ frame.received >= 3
    /\ frame.painted = frame.received
    /\ deadline = None
    /\ is_some(last_state.highlighter_state)
    /\ display.seen = Some(last_state)
    /\ unwrap(last_state.editor_state).text.rev = 1

\* ---------------------------------------------------------------- C38
\* the lines that the last pass mapped to the text rows, the first to row 1
mapped_lines ==
    LET st == unwrap(display.seen)
    IN  iter_line_range(unwrap(st.editor_state).text, top_line_of(st),
                        top_line_of(st) + (terminal_size[2] - 2))
\* what a row shows is the content of line, plain or styled
shows_content(shown, line) ==
    /\ shown.kind = "line"
    /\ shown.text \in {heap[line.content_string],
                       as_24_bit_terminal_escaped(heap[line.content_string])}
\* C38: after a render pass that was given a state snapshot, every text row
\* shows the content of the snapshot line mapped to it, plain or styled, and
\* the empty-row marker when no line is mapped to it; a row the pass did not
\* rewrite is no exception.
C38_RowsShowTheSnapshot ==
    (is_some(display.seen) /\ is_some(unwrap(display.seen).editor_state))
        => \A row \in 1..(terminal_size[2] - 2) :
              /\ row \in DOMAIN display.screen
              /\ IF row <= Len(mapped_lines)
                 THEN shows_content(display.screen[row], mapped_lines[row])
                 ELSE display.screen[row].kind = "blank"

\* ---------------------------------------------------------------- C39
\* the record that the last pass took for a line of its snapshot
record_for(line) ==
    LET st == unwrap(display.seen)
    IN  IF is_some(st.highlighter_state)
        THEN highlighted_line(unwrap(st.highlighter_state), line)
        ELSE None
\* C39: in a render pass, HighlightState::highlighted_line returns a record
\* for a line of the state snapshot only if the record's styled text was
\* computed from the content the line has in that snapshot; every row the
\* pass writes for a line is therefore the line's content, styled or plain.
C39_StyledFromCurrentContent ==
    (is_some(display.seen) /\ is_some(unwrap(display.seen).editor_state))
        => /\ \A i \in 1..Len(mapped_lines) :
                 is_some(record_for(mapped_lines[i]))
                    => unwrap(record_for(mapped_lines[i])).highlighted_text
                         = as_24_bit_terminal_escaped(heap[mapped_lines[i].content_string])
           /\ \A j \in 1..Len(display.writes) :
                 display.writes[j].kind = "line"
                    => display.writes[j].text
                         \in {heap[mapped_lines[display.writes[j].row].content_string],
                              as_24_bit_terminal_escaped(
                                  heap[mapped_lines[display.writes[j].row].content_string])}

\* ---------------------------------------------------------------- C40
\* the receivers on the topic of the bus
bus_receivers == {ch \in DOMAIN chans : chans[ch].topic = bus_topic}
\* the values of q that q2 holds too, in q's order
common(q, q2) == SelectSeq(q, LAMBDA v : v \in Range(q2))
\* q is what remains of q2 after some of its first values
is_suffix(q, q2) ==
    /\ Len(q) <= Len(q2)
    /\ q = SubSeq(q2, Len(q2) - Len(q) + 1, Len(q2))
\* C40: with two threads publishing on a topic and a third registering on it
\* concurrently, at most one of them is inside the Hub at a time; any two
\* receivers of the topic have been sent the values they both hold in the
\* same order; and whenever no call is inside the Hub, what a receiver
\* registered in between has been sent is an unbroken end of what a receiver
\* registered before all publishes has been sent: a value and every later
\* one, or only later ones.
C40_FanOutAtomic ==
    /\ Cardinality({t \in BusThreads : bus.pc[t] \in {"send", "get_receiver"}}) <= 1
    /\ \A c1, c2 \in bus_receivers :
          common(chans[c1].queue, chans[c2].queue) = common(chans[c2].queue, chans[c1].queue)
    /\ (\A t \in BusThreads : bus.pc[t] \in {"idle", "lock"})
          => \A ch \in bus_receivers : is_suffix(chans[ch].queue, chans[1].queue)

\* The registration waited while a publish held the lock, publishes of both
\* threads came before it and after it, and every call has returned
C40_Witness ==
    /\ bus.contended
    /\ \A t \in BusThreads : bus.pc[t] = "idle"
    /\ \A t \in BusPublishers : bus.sent[t] = MaxBusPub
    /\ Len(chans) = 3
    /\ chans[3].queue = <<<<"b", 1>>, <<"a", 2>>, <<"b", 2>>>>
    /\ chans[1].queue = <<<<"a", 1>>>> \o chans[3].queue
    /\ chans[2].queue = chans[1].queue

====
